---- MODULE Spec2Model ----
(***************************************************************************)
(* Model of the CodeLens test-execution plane.                             *)
(*                                                                         *)
(*   Spec        one dispatch of TestRunnerClient, streaming (a branch of  *)
(*               generate_and_send_test with handle_test_result_sync) or   *)
(*               batched (backend/tests/handlers/                          *)
(*               test_generation_service.py,                               *)
(*               backend/websocket/test_runner_client.py)                  *)
(*   SpecConcurrent  the three branches of generate_all_tests at once      *)
(*   SpecK8s     KubernetesTestRunner._execute_single_test                  *)
(*               (test-runner/main.py)                                     *)
(*   SpecDocker  DockerTestRunner._execute_single_test                      *)
(*               (test-runner-docker/main.py)                              *)
(*   SpecSession the receive loop and the request handlers                 *)
(*               (backend/api/routes.py, api/websocket/handlers.py,        *)
(*               api/validation.py, api/responses.py)                      *)
(*   SpecK8sFair SpecK8s under the fairness of the event loop              *)
(*   SpecDisconnect  SpecSession with a client that may close its end      *)
(*   SpecWriters the tasks that write to one session's websocket           *)
(*   SpecSessions    ConnectionManager and the endpoints of the sessions   *)
(*               (backend/api/connection_manager.py, api/routes.py)        *)
(*   SpecIsolation   the branches of the requests of two sessions at once  *)
(*   SpecFaults  the three branches with generators that may raise         *)
(*               (backend/tests/generators/base.py)                        *)
(*   SpecFrames  the streaming dispatch against a link that may repeat a   *)
(*               result or answer for a test that was not asked            *)
(*   SpecRunTests    handle_run_tests_message and its batched dispatch     *)
(*               (backend/tests/handlers/test_execution.py)                *)
(*   SpecPipelined   SpecSession with a client that sends two frames       *)
(***************************************************************************)
EXTENDS Integers, Sequences, FiniteSets, TLC

\* ------------------------------------------------------------------ bounds
MaxTests == 2
MaxEvents == 4
MaxConcurrentEvents == 2
MaxConcurrentTests == 2
NumJobs == 2
MaxApiFaults == 1
NumContainers == 2
MaxRequests == 1
MaxSessionEvents == 1
MaxSessionTests == 1

\* test results each branch reports while the writers are observed
MaxUpdates == 1

\* pings the keepalive task of a session sends while it is observed
MaxPings == 1

\* the branches of a request whose generators may raise: generators that
\* raise, events of the links, tests created
MaxGeneratorFaults == 1
MaxFaultEvents == 1
MaxFaultTests == 1

\* link events and tests created while two sessions are observed
MaxIsolationEvents == 1

MaxIsolationTests == 2

MaxIsolationBranches == 2

\* websocket connections the service accepts
NumSessions == 2

\* frames the client of SpecPipelined sends
MaxPipelinedRequests == 2

\* lines of the source of a test the container backend runs
MaxSourceLines == 2

\* link events and tests of the run_tests request of SpecRunTests
MaxRunEvents == 1
MaxRunTests == 2

\* ------------------------------------------------------- program constants
max_retries == 3
initial_retry_delay == 2

VARIABLES
    \* --- orchestrator: one entry per dispatch (a kind branch or a run_tests call)
    pc,               \* position of the dispatch
    mode,             \* "none" | "streaming" | "batch"
    tests,            \* generated_tests / tests: sequence of test ids
    message_id,       \* message_id of the TestMessage (0: not allocated)
    attempt,          \* loop variable of `for attempt in range(max_retries)`
    retry_delay,      \* local retry_delay
    completed_tests,  \* local completed_tests
    link,             \* number of links (websockets) the dispatch holds open
    answered,         \* tests whose result the service has sent on the open link
    dropped,          \* message ids of the frames the read loop has skipped
    quota,            \* number of tests the generators and the client may still create
    malformed,        \* the dispatch has read a reply that is no JSON or no valid frame
    connects,         \* number of calls of websockets.connect
    sleeps,           \* arguments of asyncio.sleep, in order
    sink,             \* calls of result_callback: [test_id, success, error, from]
    ret,              \* value returned by execute_tests
    returned,         \* "no" | "normal" | "exhausted" | "fatal"
    budget,           \* events (frames, failures, timeouts) the links may still produce
    test,             \* Test objects by id: [status, execution_success, writes]
    tasks,            \* send_update tasks created and not yet run (test ids)
    out,              \* frames written to the client by the dispatch's branch
    req_id,           \* id of the client request the dispatch belongs to
    \* --- session: the receive loop of websocket_endpoint
    s_pc,             \* "receive" | "generate_tests" | "run_tests"
    s_req,            \* id of the request whose handler is running
    s_out,            \* frames written by the handlers: [req, id, type]
    s_left,           \* frames the client may still send
    s_peer,           \* the client's end of the session's websocket: "open" | "closed"
    s_read,           \* what the frame last read by the loop was ("" before any)
    \* --- orchestrated-job backend: one entry per call of _execute_single_test
    k_pc,             \* position of the call
    configmap,        \* the ConfigMap job_name-code: "absent" | "present" | "deleted"
    job,              \* the Job job_name: "absent" | "active" | "succeeded" | "failed" | "deleted"
    k_elapsed,        \* loop.time() - start_time > timeout
    k_result,         \* the TestResult computed or returned
    k_faults,         \* API calls that may still raise ApiException
    k_mode,           \* test_message.streaming of the request: "batch" | "streaming"
    k_epc,            \* the endpoint: "handling" the request | "receive" (reads the next)
    k_order,          \* the calls in the order in which they returned
    k_final,          \* final_results returned by execute_tests
    k_frames,         \* frames the endpoint sent on the connection
    \* --- container backend: one entry per call of _execute_single_test
    c_pc,             \* position of the call
    container,        \* "absent" | "running" | "exited" | "removed"
    exit_code,        \* StatusCode of the exited container
    c_result,         \* the TestResult returned
    c_files,          \* test.code, /test/test_code.py and what the shell ran besides
    \* --- the writers of one session's channel during a generate_tests request
    w_branch,         \* position of each kind branch of generate_all_tests
    w_results,        \* results the dispatch of each branch will still report
    w_tasks,          \* send_update tasks created and not yet started
    w_inside,         \* tasks that have entered a send on the websocket and not left it
    w_keepalive,      \* keepalive: "off" | "sleep" | "send"
    w_pings,          \* pings the keepalive task may still send
    \* --- ConnectionManager and the endpoint of every session
    active_connections,  \* ConnectionManager.active_connections
    m_pc,             \* websocket_endpoint of the session: "new" | "receive" | "handling" | "ended" | "rejected"
    m_peer,           \* the client's end of the session's websocket: "open" | "closed"
    m_keepalive,      \* keepalive_task: "none" | "running" | "stopped" | "cancelled"
    m_removed,        \* calls of manager.disconnect with the session's websocket
    m_pings,          \* the pings sent to the session's client: where its loop was at each
    \* the generators
    g_faults,         \* generators that may still raise while the branches are observed
    g_error           \* per dispatch: _generate_test of its generator has raised

cvars == <<pc, mode, tests, message_id, attempt, retry_delay, completed_tests,
           answered, dropped, quota, malformed, link, connects, sleeps, sink, ret, returned, budget, test, tasks,
           out, req_id>>

kvars == <<k_pc, configmap, job, k_elapsed, k_result, k_faults,
          k_mode, k_epc, k_order, k_final, k_frames>>

dvars == <<c_pc, container, exit_code, c_result, c_files>>

svars == <<s_pc, s_req, s_out, s_left, s_peer, s_read>>

wvars == <<w_branch, w_results, w_tasks, w_inside, w_keepalive, w_pings>>

\* the variables of the specifications of the channel
mvars == <<active_connections, m_pc, m_peer, m_keepalive, m_removed, m_pings>>

gvars == <<g_faults, g_error>>

ovars == <<wvars, mvars, gvars>>

vars == <<cvars, kvars, dvars, svars, ovars>>

\* what the steps of a dispatch leave alone
NotClient == <<req_id, kvars, dvars, svars, ovars>>

\* what the steps of the orchestrated-job backend leave alone
NotK8s == <<cvars, dvars, svars, ovars>>

\* what the steps of the container backend leave alone
NotDocker == <<cvars, kvars, svars, ovars>>

\* what the handlers that start no dispatch leave alone
NotSession == <<cvars, kvars, dvars, ovars>>

\* the keys of self.generators
KindNames == <<"unit", "memory", "performance">>

\* the branches of one call of generate_all_tests: one per key of self.generators
Kinds == DOMAIN KindNames

\* the ids the clients of two sessions put on their generate_tests requests;
\* the first session is the one the specifications of a single session observe
SessionRequestIds == <<"a", "b">>

\* the dispatches observed at once: as many as one call of generate_all_tests
\* has branches
Dispatches == Kinds

\* the session whose request created dispatch d when two sessions are served
\* at once: the last dispatch is a branch of the second session's call
SessionOf(d) == IF d < Len(KindNames) THEN 1 ELSE 2

\* every dispatch is a branch of the first session's call
OneSession == [d \in Dispatches |-> SessionRequestIds[1]]

\* the dispatches are branches of the calls of two sessions
TwoSessions == [d \in Dispatches |-> SessionRequestIds[SessionOf(d)]]

Range(s) == {s[i] : i \in DOMAIN s}

\* faulty variant of TestUuid: the id is the position of the test in its list
TestUuidPerList(d, i) == i

\* uuid.uuid4() is modelled by values that differ for every draw:
\* the id of the i-th test created for dispatch d
TestUuid(d, i) == (d - 1) * MaxTests + i

\* the message_id drawn by dispatch d; 0 is no message id of this process
MessageUuid(d) == d

\* ---------------------------------------------------------------- results
NoError == <<>>

\* TestResult(test_id, success, output, error)
TestResult(id, ok, err) == [test_id |-> id, success |-> ok, error |-> err]

\* f"Test runner communication error: {str(e)}"
CommunicationError(e) == <<"Test runner communication error", ": ", e>>

StartsWith(err, prefix) == Len(err) >= 1 /\ err[1] = prefix

\* faulty variant of ErrorResults: the last test gets no result
ErrorResultsDropLast(ts, e) ==
    [i \in 1..(Len(ts) - 1) |-> TestResult(ts[i], FALSE, CommunicationError(e))]

\* the error_results of the except branch of execute_tests[_streaming]
ErrorResults(ts, e) ==
    [i \in 1..Len(ts) |-> TestResult(ts[i], FALSE, CommunicationError(e))]

\* faulty variant of MessageIdMatches: every frame is taken as the own
MessageIdAny(frame_mid, own_mid) == TRUE

\* individual_result.message_id == test_message.message_id
MessageIdMatches(frame_mid, own_mid) == frame_mid = own_mid

\* faulty variant of NextRetryDelay: the delay is not doubled
NextRetryDelayConstant(delay) == delay

\* retry_delay *= 2
NextRetryDelay(delay) == delay * 2

\* attempt == max_retries - 1
IsLastAttempt(a) == a = max_retries - 1

\* ------------------------------------------------- coordinator (one branch)
\* test_type of the branch that owns dispatch d
KindOf(d) == KindNames[d]

Terminal == {"success", "failed"}

\* models.Test(type=...): id from uuid4, status "pending", execution fields None
NewTest(type) ==
    [type |-> type, status |-> "pending", execution_success |-> "none", writes |-> 0]

\* the list of tests as serialised into a frame
Snapshot(tb, ts) == [i \in 1..Len(ts) |-> [id |-> ts[i], status |-> tb[ts[i]].status]]

\* prepare_response_message(message_type, message_id, <kind>_tests=...)
TestsFrame(d, tb) ==
    [type |-> "return_" \o KindOf(d) \o "_tests", id |-> req_id[d],
     tests |-> Snapshot(tb, tests[d])]

\* prepare_response_message("test_result_update", message_id, test_result=...)
UpdateFrame(d, tb, t) ==
    [type |-> "test_result_update", id |-> req_id[d], tests |-> Snapshot(tb, <<t>>)]

\* faulty variant of WithStatus: the loop does not run
WithStatusKept(tb, ts, s) == tb

\* `for test in generated_tests: test.status = s`
WithStatus(tb, ts, s) ==
    [t \in DOMAIN tb |-> IF t \in Range(ts) THEN [tb[t] EXCEPT !.status = s] ELSE tb[t]]

\* number of calls in rs that name test t
Calls(rs, t) == Cardinality({i \in DOMAIN rs : rs[i].test_id = t})

LastCall(rs, t) ==
    rs[CHOOSE i \in DOMAIN rs :
          rs[i].test_id = t /\ \A j \in DOMAIN rs : j > i => rs[j].test_id # t]

\* handle_test_result_sync applied to the calls rs in order: the Test objects
AfterCallbacks(d, rs) ==
    [t \in DOMAIN test |->
        IF t \in Range(tests[d]) /\ Calls(rs, t) > 0
        THEN [type |-> test[t].type,
              status |-> IF LastCall(rs, t).success THEN "success" ELSE "failed",
              execution_success |-> LastCall(rs, t).success,
              writes |-> test[t].writes + Calls(rs, t)]
        ELSE test[t]]

\* handle_test_result_sync applied to the calls rs in order: the tasks created
TasksCreated(d, rs) ==
    LET hits == SelectSeq(rs, LAMBDA r : r.test_id \in Range(tests[d]))
    IN  [i \in 1..Len(hits) |-> [d |-> d, id |-> hits[i].test_id]]

\* result_callback(r.test_id, r) for every r of rs, taken from a frame of `from`
Callback(d, rs, from) ==
    /\ test' = AfterCallbacks(d, rs)
    /\ tasks' = tasks \o TasksCreated(d, rs)
    /\ sink' = [sink EXCEPT ![d] = @ \o
                  [i \in 1..Len(rs) |-> [test_id |-> rs[i].test_id,
                                         success |-> rs[i].success,
                                         error |-> rs[i].error,
                                         from |-> from]]]

\* origin of a call of result_callback: <<mid>> for a frame, <<>> for the except branch
Synthesized == <<>>

FromFrame(mid) == <<mid>>

\* what the client has received after frames fs were sent on the websocket:
\* nothing of fs reaches a client that has closed its end
Delivered(received, fs) == IF s_peer = "open" THEN received \o fs ELSE received

\* a send on the websocket raises only when the client has closed its end;
\* whether it then raises or returns is left to the server library.  In a
\* kind branch the exception reaches error_handler, whose own send meets the
\* same websocket, and the branch ends
SendRaises == s_peer = "closed"

\* the numbers of tests get_tests_async of the generator of kind k can return
\* when up to n can be created: an exception of _generate_test is caught by
\* the worker and the generator returns the empty list; the generator of unit
\* tests concatenates the lists of its generators, each of which does so
Generated(k, raised, n) == IF raised /\ k # "unit" THEN {0} ELSE 0..n

\* generate_and_send_test up to the pending snapshot
Generate(d) ==
    /\ pc[d] = "init"
    /\ \E raised \in {FALSE} \cup {g_faults > 0} :
          /\ g_error' = [g_error EXCEPT ![d] = raised]
          /\ g_faults' = IF raised THEN g_faults - 1 ELSE g_faults
          /\ \E n \in Generated(KindOf(d), raised, quota) :
              LET ids == [i \in 1..n |-> TestUuid(d, i)]
                  tb  == test @@ [t \in Range(ids) |-> NewTest(KindOf(d))]
              IN  /\ quota' = quota - n
                  /\ tests' = [tests EXCEPT ![d] = ids]
                  /\ test' = WithStatus(tb, ids, "pending")
                  /\ out' = [out EXCEPT ![d] =
                               Delivered(@, <<[type |-> "return_" \o KindOf(d) \o "_tests",
                                              id |-> req_id[d],
                                              tests |-> Snapshot(WithStatus(tb, ids, "pending"), ids)]>>)]
    /\ mode' = [mode EXCEPT ![d] = "streaming"]
    /\ \/ pc' = [pc EXCEPT ![d] = "pending"]
       \/ SendRaises /\ pc' = [pc EXCEPT ![d] = "aborted"]
    /\ UNCHANGED <<message_id, attempt, retry_delay, completed_tests, link,
                   connects, sleeps, sink, ret, returned, budget, tasks>>
    /\ UNCHANGED <<answered, dropped, malformed>>
    /\ UNCHANGED <<req_id, kvars, dvars, svars, wvars, mvars>>

\* generate_and_send_test: the running snapshot
SendRunning(d) ==
    /\ pc[d] = "pending"
    /\ test' = WithStatus(test, tests[d], "running")
    /\ out' = [out EXCEPT ![d] = Delivered(@, <<TestsFrame(d, test')>>)]
    /\ \/ pc' = [pc EXCEPT ![d] = "call"]
       \/ SendRaises /\ pc' = [pc EXCEPT ![d] = "aborted"]
    /\ UNCHANGED <<mode, tests, message_id, attempt, retry_delay, completed_tests,
                   link, connects, sleeps, sink, ret, returned, budget, tasks>>
    /\ UNCHANGED <<answered, dropped, quota, malformed>>
    /\ UNCHANGED NotClient

\* execute_tests_streaming up to the first connect
ExecuteTestsStreaming(d) ==
    /\ pc[d] = "call"
    /\ message_id' = [message_id EXCEPT ![d] = MessageUuid(d)]
    /\ attempt' = [attempt EXCEPT ![d] = 0]
    /\ retry_delay' = [retry_delay EXCEPT ![d] = initial_retry_delay]
    /\ pc' = [pc EXCEPT ![d] = "connect"]
    /\ UNCHANGED <<mode, tests, completed_tests, link, connects, sleeps, sink,
                   ret, returned, budget, test, tasks, out>>
    /\ UNCHANGED <<answered, dropped, quota, malformed>>
    /\ UNCHANGED NotClient

\* the send_update task of handle_test_result_sync
SendUpdate ==
    /\ tasks # <<>>
    /\ out' = [out EXCEPT ![Head(tasks).d] =
                 Delivered(@, <<UpdateFrame(Head(tasks).d, test, Head(tasks).id)>>)]
    /\ tasks' = Tail(tasks)
    /\ UNCHANGED <<pc, mode, tests, message_id, attempt, retry_delay,
                   completed_tests, link, connects, sleeps, sink, ret, returned,
                   budget, test>>
    /\ UNCHANGED <<answered, dropped, quota, malformed>>
    /\ UNCHANGED NotClient

\* ------------------------------------------------------------ the sandbox link
\* message ids a frame on the link may carry: those of the dispatches of this
\* process and 0, the id of traffic that belongs to none of them
FrameMids == {message_id[e] : e \in Dispatches} \cup {0}

\* error of a result reported by the sandbox service
SandboxError(ok) == IF ok THEN NoError ELSE <<"Test execution failed">>

\* the test_result frames dispatch d may read next: the service answers every
\* test of a request once per link, in any order, and echoes the message_id of
\* the request; a frame of other traffic carries another message_id and the
\* result of any test, or of a test this process does not know (0)
TestResultFrames(d) ==
    {[message_id |-> message_id[d], test_result |-> TestResult(t, ok, SandboxError(ok))] :
        t \in Range(tests[d]) \ answered[d], ok \in BOOLEAN}
    \cup
    {[message_id |-> mid, test_result |-> TestResult(t, ok, SandboxError(ok))] :
        mid \in FrameMids \ {message_id[d]}, t \in DOMAIN test \cup {0}, ok \in BOOLEAN}

\* execute_tests of the service: one result per test, in the order of the request
ServiceResults(ts, ok) == [i \in 1..Len(ts) |-> TestResult(ts[i], ok[i], SandboxError(ok[i]))]

\* the TestResponse frames dispatch d may read next: the batched answer to its
\* request, or a frame of other traffic with another message_id and the results
\* of some request, complete or cut short by one
ResponseFrames(d) ==
    {[message_id |-> message_id[d], results |-> ServiceResults(tests[d], ok)] :
        ok \in [DOMAIN tests[d] -> BOOLEAN]}
    \cup
    UNION {{[message_id |-> mid,
             results |-> ServiceResults(SubSeq(tests[e], 1, n), [i \in 1..n |-> ok])] :
               mid \in FrameMids \ {message_id[d]}, ok \in BOOLEAN,
               n \in {Len(tests[e]), Len(tests[e]) - 1} \cap Nat} :
           e \in Dispatches}

\* str(e) of the exceptions raised by _send_and_receive[_streaming]
ETimeout == "Test execution timeout after all retries"
ECannotConnect == "Cannot connect to test runner"
ERunnerError == "Test runner error"
EInvalidJson == "Invalid response from test runner"
EInvalidFormat == "Invalid response format from test runner"
EAllFailed == "All connection attempts failed"

ConnectFailures == {ETimeout, ECannotConnect}

\* json.JSONDecodeError and pydantic.ValidationError
DecodeErrors == {EInvalidJson, EInvalidFormat}

\* faulty variant of DecodeErrorRaises: a decode error is retried like a
\* connection error
DecodeErrorRaisesOnLastAttempt(a) == IsLastAttempt(a)

\* except json.JSONDecodeError / pydantic.ValidationError: raise, whatever the
\* attempt
DecodeErrorRaises(a) == TRUE

\* faulty variant of StreamingExcept: the exception leaves
\* execute_tests_streaming
StreamingExceptReraise(d, e, how) ==
    /\ returned' = [returned EXCEPT ![d] = "raised"]
    /\ pc' = [pc EXCEPT ![d] = "done"]
    /\ UNCHANGED <<test, tasks, sink>>

\* except Exception of execute_tests_streaming: a synthesized result per test
StreamingExcept(d, e, how) ==
    /\ Callback(d, ErrorResults(tests[d], e), Synthesized)
    /\ returned' = [returned EXCEPT ![d] = how]
    /\ pc' = [pc EXCEPT ![d] = "done"]

\* the streaming attempt ends without an exception: `return`
StreamingReturn(d) ==
    /\ returned' = [returned EXCEPT ![d] = "normal"]
    /\ pc' = [pc EXCEPT ![d] = "done"]

\* websockets.connect succeeds, the request is sent, the read loop is entered
S_ConnectOk(d) ==
    /\ mode[d] = "streaming" /\ pc[d] = "connect"
    /\ connects' = [connects EXCEPT ![d] = @ + 1]
    /\ answered' = [answered EXCEPT ![d] = {}]
    /\ UNCHANGED <<dropped, quota, malformed>>
    /\ completed_tests' = [completed_tests EXCEPT ![d] = 0]
    /\ IF 0 < Len(tests[d])
       THEN /\ link' = [link EXCEPT ![d] = @ + 1]
            /\ pc' = [pc EXCEPT ![d] = "recv"]
            /\ UNCHANGED returned
       ELSE /\ StreamingReturn(d)
            /\ UNCHANGED link
    /\ UNCHANGED <<mode, tests, message_id, attempt, retry_delay, sleeps, sink,
                   ret, budget, test, tasks, out>>
    /\ UNCHANGED NotClient

\* websockets.connect times out or fails: retry, or raise on the last attempt
S_ConnectFailed(d) ==
    /\ mode[d] = "streaming" /\ pc[d] = "connect" /\ budget > 0
    /\ budget' = budget - 1
    /\ connects' = [connects EXCEPT ![d] = @ + 1]
    /\ \E e \in ConnectFailures :
          IF IsLastAttempt(attempt[d])
          THEN StreamingExcept(d, e, "exhausted")
          ELSE /\ pc' = [pc EXCEPT ![d] = "sleep"]
               /\ UNCHANGED <<returned, test, tasks, sink>>
    /\ UNCHANGED <<mode, tests, message_id, attempt, retry_delay, completed_tests,
                   link, sleeps, ret, out>>
    /\ UNCHANGED <<answered, dropped, quota, malformed>>
    /\ UNCHANGED NotClient

\* after a failed attempt that did not raise: asyncio.sleep(retry_delay),
\* retry_delay *= 2 and the next attempt; after the last one the loop ends
\* and "All connection attempts failed" is raised
S_Sleep(d) ==
    /\ mode[d] = "streaming" /\ pc[d] = "sleep"
    /\ IF attempt[d] < max_retries - 1
       THEN /\ sleeps' = [sleeps EXCEPT ![d] = Append(@, retry_delay[d])]
            /\ retry_delay' = [retry_delay EXCEPT ![d] = NextRetryDelay(@)]
            /\ attempt' = [attempt EXCEPT ![d] = @ + 1]
            /\ pc' = [pc EXCEPT ![d] = "connect"]
            /\ UNCHANGED <<returned, test, tasks, sink>>
       ELSE /\ StreamingExcept(d, EAllFailed, "exhausted")
            /\ UNCHANGED <<sleeps, retry_delay, attempt>>
    /\ UNCHANGED <<mode, tests, message_id, completed_tests, link, connects,
                   ret, budget, out>>
    /\ UNCHANGED <<answered, dropped, quota, malformed>>
    /\ UNCHANGED NotClient

\* a frame {message_id, test_result} is read
S_RecvTestResult(d) ==
    /\ mode[d] = "streaming" /\ pc[d] = "recv" /\ budget > 0
    /\ budget' = budget - 1
    /\ \E f \in TestResultFrames(d) :
          /\ answered' = [answered EXCEPT ![d] =
                IF f.message_id = message_id[d] THEN @ \cup {f.test_result.test_id} ELSE @]
          /\ IF MessageIdMatches(f.message_id, message_id[d])
             THEN
               /\ Callback(d, <<f.test_result>>, FromFrame(f.message_id))
               /\ completed_tests' = [completed_tests EXCEPT ![d] = @ + 1]
               /\ IF completed_tests'[d] < Len(tests[d])
                  THEN UNCHANGED <<pc, returned, link>>
                  ELSE /\ StreamingReturn(d)
                       /\ link' = [link EXCEPT ![d] = @ - 1]
             ELSE UNCHANGED <<test, tasks, sink, completed_tests, pc, returned, link>>
          /\ dropped' = [dropped EXCEPT ![d] =
                IF MessageIdMatches(f.message_id, message_id[d]) THEN @ ELSE @ \cup {f.message_id}]
    /\ UNCHANGED <<mode, tests, message_id, attempt, retry_delay, connects, sleeps,
                   ret, out>>
    /\ UNCHANGED <<quota, malformed>>
    /\ UNCHANGED NotClient

\* a frame {message_id, test_result} with the message_id of the dispatch is
\* read whose test_result repeats a test already answered on this link or
\* names a test the dispatch does not have (0): result_callback is called and
\* completed_tests is incremented, the test_id is not looked at
S_RecvUnexpected(d) ==
    /\ mode[d] = "streaming" /\ pc[d] = "recv" /\ budget > 0
    /\ budget' = budget - 1
    /\ \E t \in answered[d] \cup {0}, ok \in BOOLEAN :
          /\ MessageIdMatches(message_id[d], message_id[d])
          /\ Callback(d, <<TestResult(t, ok, SandboxError(ok))>>, FromFrame(message_id[d]))
          /\ answered' = [answered EXCEPT ![d] = @ \cup {t}]
    /\ completed_tests' = [completed_tests EXCEPT ![d] = @ + 1]
    /\ IF completed_tests'[d] < Len(tests[d])
       THEN UNCHANGED <<pc, returned, link>>
       ELSE /\ StreamingReturn(d)
            /\ link' = [link EXCEPT ![d] = @ - 1]
    /\ UNCHANGED <<mode, tests, message_id, attempt, retry_delay, connects, sleeps,
                   ret, out>>
    /\ UNCHANGED <<dropped, quota, malformed>>
    /\ UNCHANGED NotClient

\* a frame {message_id, results} is read
S_RecvResults(d) ==
    /\ mode[d] = "streaming" /\ pc[d] = "recv" /\ budget > 0
    /\ budget' = budget - 1
    /\ \E f \in ResponseFrames(d) :
          /\ f.message_id = message_id[d] => answered[d] = {}
          /\ answered' = [answered EXCEPT ![d] =
                IF f.message_id = message_id[d] THEN Range(tests[d]) ELSE @]
          /\ IF MessageIdMatches(f.message_id, message_id[d])
             THEN /\ Callback(d, f.results, FromFrame(f.message_id))
                  /\ completed_tests' = [completed_tests EXCEPT ![d] = @ + Len(f.results)]
                  /\ StreamingReturn(d)
                  /\ link' = [link EXCEPT ![d] = @ - 1]
             ELSE UNCHANGED <<test, tasks, sink, completed_tests, pc, returned, link>>
          /\ dropped' = [dropped EXCEPT ![d] =
                IF MessageIdMatches(f.message_id, message_id[d]) THEN @ ELSE @ \cup {f.message_id}]
    /\ UNCHANGED <<mode, tests, message_id, attempt, retry_delay, connects, sleeps,
                   ret, out>>
    /\ UNCHANGED <<quota, malformed>>
    /\ UNCHANGED NotClient

\* a frame with neither "error", "test_result" nor "results" (a pong) is read
S_RecvOther(d) ==
    /\ mode[d] = "streaming" /\ pc[d] = "recv" /\ budget > 0
    /\ budget' = budget - 1
    /\ UNCHANGED <<pc, mode, tests, message_id, attempt, retry_delay,
                   completed_tests, link, connects, sleeps, sink, ret, returned,
                   test, tasks, out>>
    /\ UNCHANGED <<answered, dropped, quota, malformed>>
    /\ UNCHANGED NotClient

\* a frame with "error", invalid JSON, or a frame failing validation is read:
\* the exception leaves _send_and_receive_streaming without a retry
S_RecvFatal(d) ==
    /\ mode[d] = "streaming" /\ pc[d] = "recv" /\ budget > 0
    /\ budget' = budget - 1
    /\ link' = [link EXCEPT ![d] = @ - 1]
    /\ \E e \in {ERunnerError} \cup DecodeErrors :
          /\ malformed' = [malformed EXCEPT ![d] = @ \/ e \in DecodeErrors]
          /\ IF e = ERunnerError \/ DecodeErrorRaises(attempt[d])
             THEN StreamingExcept(d, e, "fatal")
             ELSE /\ pc' = [pc EXCEPT ![d] = "sleep"]
                  /\ UNCHANGED <<returned, test, tasks, sink>>
    /\ UNCHANGED <<mode, tests, message_id, attempt, retry_delay, completed_tests,
                   connects, sleeps, ret, out>>
    /\ UNCHANGED <<answered, dropped, quota>>
    /\ UNCHANGED NotClient

\* websocket.recv exceeds execution_timeout: the inner except breaks the loop
S_RecvTimeout(d) ==
    /\ mode[d] = "streaming" /\ pc[d] = "recv" /\ budget > 0
    /\ budget' = budget - 1
    /\ link' = [link EXCEPT ![d] = @ - 1]
    /\ StreamingReturn(d)
    /\ UNCHANGED <<mode, tests, message_id, attempt, retry_delay, completed_tests,
                   connects, sleeps, sink, ret, test, tasks, out>>
    /\ UNCHANGED <<answered, dropped, quota, malformed>>
    /\ UNCHANGED NotClient

\* faulty variant of S_RecvClosed: the link of the failed attempt is left open
S_RecvClosedKeepsLink(d) ==
    /\ mode[d] = "streaming" /\ pc[d] = "recv" /\ budget > 0
    /\ budget' = budget - 1
    /\ IF IsLastAttempt(attempt[d])
       THEN StreamingExcept(d, ECannotConnect, "exhausted")
       ELSE /\ pc' = [pc EXCEPT ![d] = "sleep"]
            /\ UNCHANGED <<returned, test, tasks, sink>>
    /\ UNCHANGED <<mode, tests, message_id, attempt, retry_delay, completed_tests,
                   link, connects, sleeps, ret, out>>
    /\ UNCHANGED <<answered, dropped, quota, malformed>>
    /\ UNCHANGED NotClient

\* websocket.recv raises ConnectionClosed: retry, or raise on the last attempt
S_RecvClosed(d) ==
    /\ mode[d] = "streaming" /\ pc[d] = "recv" /\ budget > 0
    /\ budget' = budget - 1
    /\ link' = [link EXCEPT ![d] = @ - 1]
    /\ IF IsLastAttempt(attempt[d])
       THEN StreamingExcept(d, ECannotConnect, "exhausted")
       ELSE /\ pc' = [pc EXCEPT ![d] = "sleep"]
            /\ UNCHANGED <<returned, test, tasks, sink>>
    /\ UNCHANGED <<mode, tests, message_id, attempt, retry_delay, completed_tests,
                   connects, sleeps, ret, out>>
    /\ UNCHANGED <<answered, dropped, quota, malformed>>
    /\ UNCHANGED NotClient

\* ------------------------------------------------------- batched dispatch
\* handle_run_tests_message deserialises the tests and calls execute_tests,
\* which runs up to the first connect
ExecuteTests(d) ==
    /\ pc[d] = "run"
    /\ \E n \in 1..quota : \E types \in [1..n -> Range(KindNames)] :
          LET ids == [i \in 1..n |-> TestUuid(d, i)]
          IN  /\ quota' = quota - n
              /\ tests' = [tests EXCEPT ![d] = ids]
              /\ test' = test @@ [t \in Range(ids) |-> NewTest(types[t - TestUuid(d, 0)])]
    /\ message_id' = [message_id EXCEPT ![d] = MessageUuid(d)]
    /\ mode' = [mode EXCEPT ![d] = "batch"]
    /\ attempt' = [attempt EXCEPT ![d] = 0]
    /\ retry_delay' = [retry_delay EXCEPT ![d] = initial_retry_delay]
    /\ pc' = [pc EXCEPT ![d] = "connect"]
    /\ UNCHANGED <<completed_tests, link, connects, sleeps, sink, ret, returned,
                   budget, tasks, out>>
    /\ UNCHANGED <<answered, dropped, malformed>>
    /\ UNCHANGED NotClient

\* except Exception of execute_tests: the list of synthesized results
BatchExcept(d, e, how) ==
    /\ ret' = [ret EXCEPT ![d] = [results |-> ErrorResults(tests[d], e),
                                  from |-> Synthesized]]
    /\ returned' = [returned EXCEPT ![d] = how]
    /\ pc' = [pc EXCEPT ![d] = "done"]

\* websockets.connect succeeds and the request is sent
B_ConnectOk(d) ==
    /\ mode[d] = "batch" /\ pc[d] = "connect"
    /\ connects' = [connects EXCEPT ![d] = @ + 1]
    /\ answered' = [answered EXCEPT ![d] = {}]
    /\ UNCHANGED <<dropped, quota, malformed>>
    /\ link' = [link EXCEPT ![d] = @ + 1]
    /\ pc' = [pc EXCEPT ![d] = "recv"]
    /\ UNCHANGED <<mode, tests, message_id, attempt, retry_delay, completed_tests,
                   sleeps, sink, ret, returned, budget, test, tasks, out>>
    /\ UNCHANGED NotClient

\* websockets.connect times out or fails: retry, or raise on the last attempt
B_ConnectFailed(d) ==
    /\ mode[d] = "batch" /\ pc[d] = "connect" /\ budget > 0
    /\ budget' = budget - 1
    /\ connects' = [connects EXCEPT ![d] = @ + 1]
    /\ \E e \in ConnectFailures :
          IF IsLastAttempt(attempt[d])
          THEN BatchExcept(d, e, "exhausted")
          ELSE /\ pc' = [pc EXCEPT ![d] = "sleep"]
               /\ UNCHANGED <<returned, ret>>
    /\ UNCHANGED <<mode, tests, message_id, attempt, retry_delay, completed_tests,
                   link, sleeps, sink, test, tasks, out>>
    /\ UNCHANGED <<answered, dropped, quota, malformed>>
    /\ UNCHANGED NotClient

\* after a failed attempt that did not raise: asyncio.sleep(retry_delay),
\* retry_delay *= 2 and the next attempt; after the last one the loop ends
\* and "All connection attempts failed" is raised
B_Sleep(d) ==
    /\ mode[d] = "batch" /\ pc[d] = "sleep"
    /\ IF attempt[d] < max_retries - 1
       THEN /\ sleeps' = [sleeps EXCEPT ![d] = Append(@, retry_delay[d])]
            /\ retry_delay' = [retry_delay EXCEPT ![d] = NextRetryDelay(@)]
            /\ attempt' = [attempt EXCEPT ![d] = @ + 1]
            /\ pc' = [pc EXCEPT ![d] = "connect"]
            /\ UNCHANGED <<returned, ret>>
       ELSE /\ BatchExcept(d, EAllFailed, "exhausted")
            /\ UNCHANGED <<sleeps, retry_delay, attempt>>
    /\ UNCHANGED <<mode, tests, message_id, completed_tests, link, connects, sink,
                   budget, test, tasks, out>>
    /\ UNCHANGED <<answered, dropped, quota, malformed>>
    /\ UNCHANGED NotClient

\* the reply parses as a TestResponse: a mismatch of message_id is logged,
\* the results are returned
B_RecvResponse(d) ==
    /\ mode[d] = "batch" /\ pc[d] = "recv" /\ budget > 0
    /\ budget' = budget - 1
    /\ link' = [link EXCEPT ![d] = @ - 1]
    /\ \E f \in ResponseFrames(d) :
          ret' = [ret EXCEPT ![d] = [results |-> f.results,
                                     from |-> FromFrame(f.message_id)]]
    /\ returned' = [returned EXCEPT ![d] = "normal"]
    /\ pc' = [pc EXCEPT ![d] = "done"]
    /\ UNCHANGED <<mode, tests, message_id, attempt, retry_delay, completed_tests,
                   connects, sleeps, sink, test, tasks, out>>
    /\ UNCHANGED <<answered, dropped, quota, malformed>>
    /\ UNCHANGED NotClient

\* the reply has "error", is invalid JSON or is no TestResponse
B_RecvFatal(d) ==
    /\ mode[d] = "batch" /\ pc[d] = "recv" /\ budget > 0
    /\ budget' = budget - 1
    /\ link' = [link EXCEPT ![d] = @ - 1]
    /\ \E e \in {ERunnerError} \cup DecodeErrors :
          /\ malformed' = [malformed EXCEPT ![d] = @ \/ e \in DecodeErrors]
          /\ IF e = ERunnerError \/ DecodeErrorRaises(attempt[d])
             THEN BatchExcept(d, e, "fatal")
             ELSE /\ pc' = [pc EXCEPT ![d] = "sleep"]
                  /\ UNCHANGED <<returned, ret>>
    /\ UNCHANGED <<mode, tests, message_id, attempt, retry_delay, completed_tests,
                   connects, sleeps, sink, test, tasks, out>>
    /\ UNCHANGED <<answered, dropped, quota>>
    /\ UNCHANGED NotClient

\* websocket.recv times out or raises ConnectionClosed: retry, or raise on the
\* last attempt
B_RecvFailed(d) ==
    /\ mode[d] = "batch" /\ pc[d] = "recv" /\ budget > 0
    /\ budget' = budget - 1
    /\ link' = [link EXCEPT ![d] = @ - 1]
    /\ \E e \in ConnectFailures :
          IF IsLastAttempt(attempt[d])
          THEN BatchExcept(d, e, "exhausted")
          ELSE /\ pc' = [pc EXCEPT ![d] = "sleep"]
               /\ UNCHANGED <<returned, ret>>
    /\ UNCHANGED <<mode, tests, message_id, attempt, retry_delay, completed_tests,
                   connects, sleeps, sink, test, tasks, out>>
    /\ UNCHANGED <<answered, dropped, quota, malformed>>
    /\ UNCHANGED NotClient

\* ------------------------------------------- orchestrated-job backend (C1)
Jobs == 1..NumJobs

\* TestResult of the driver: success, error (None is <<>>) and output
DriverResult(ok, err, output) == [success |-> ok, error |-> err, output |-> output]

NoResult == DriverResult(FALSE, <<"no result">>, "")

\* an API call may raise ApiException while faults remain
MayFail == k_faults > 0

\* _create_test_configmap: create_namespaced_config_map
K_CreateConfigMap(j) ==
    /\ k_pc[j] = "start"
    /\ \/ /\ configmap' = [configmap EXCEPT ![j] = "present"]
          /\ k_pc' = [k_pc EXCEPT ![j] = "create_job"]
          /\ UNCHANGED <<k_faults, k_result>>
       \/ /\ MayFail
          /\ k_faults' = k_faults - 1
          /\ k_result' = [k_result EXCEPT ![j] = DriverResult(FALSE, <<"Execution error", ": ", "ApiException">>, "")]
          /\ k_pc' = [k_pc EXCEPT ![j] = "cleanup"]
          /\ UNCHANGED configmap
    /\ UNCHANGED <<job, k_elapsed>>
    /\ UNCHANGED <<k_mode, k_epc, k_order, k_final, k_frames>>
    /\ UNCHANGED NotK8s

\* _create_test_job: create_namespaced_job
K_CreateJob(j) ==
    /\ k_pc[j] = "create_job"
    /\ \/ /\ job' = [job EXCEPT ![j] = "active"]
          /\ k_pc' = [k_pc EXCEPT ![j] = "poll"]
          /\ UNCHANGED <<k_faults, k_result>>
       \/ /\ MayFail
          /\ k_faults' = k_faults - 1
          /\ k_result' = [k_result EXCEPT ![j] = DriverResult(FALSE, <<"Execution error", ": ", "ApiException">>, "")]
          /\ k_pc' = [k_pc EXCEPT ![j] = "cleanup"]
          /\ UNCHANGED job
    /\ UNCHANGED <<configmap, k_elapsed>>
    /\ UNCHANGED <<k_mode, k_epc, k_order, k_final, k_frames>>
    /\ UNCHANGED NotK8s

\* the result of one iteration of the loop of _wait_for_job_completion when
\* read_namespaced_job answers with status st; "none": sleep and poll again
PollResult(elapsed, st) ==
    IF elapsed THEN DriverResult(FALSE, <<"Test execution timeout">>, "")
    ELSE IF st = "succeeded" THEN DriverResult(TRUE, <<>>, "logs")
    ELSE IF st = "failed" THEN DriverResult(FALSE, <<"Test execution failed">>, "logs")
    ELSE NoResult

\* one iteration of the loop of _wait_for_job_completion
K_Poll(j) ==
    /\ k_pc[j] = "poll"
    /\ \/ /\ PollResult(k_elapsed[j], job[j]) # NoResult
          /\ k_result' = [k_result EXCEPT ![j] = PollResult(k_elapsed[j], job[j])]
          /\ k_pc' = [k_pc EXCEPT ![j] = "cleanup"]
          /\ UNCHANGED k_faults
       \/ /\ PollResult(k_elapsed[j], job[j]) = NoResult
          /\ k_pc' = [k_pc EXCEPT ![j] = "sleep"]
          /\ UNCHANGED <<k_faults, k_result>>
       \/ /\ ~k_elapsed[j] /\ MayFail
          /\ k_faults' = k_faults - 1
          /\ k_result' = [k_result EXCEPT ![j] = DriverResult(FALSE, <<"Kubernetes API error", ": ", "ApiException">>, "")]
          /\ k_pc' = [k_pc EXCEPT ![j] = "cleanup"]
    /\ UNCHANGED <<configmap, job, k_elapsed>>
    /\ UNCHANGED <<k_mode, k_epc, k_order, k_final, k_frames>>
    /\ UNCHANGED NotK8s

\* asyncio.sleep(2) of the wait loop returns
K_Wake(j) ==
    /\ k_pc[j] = "sleep"
    /\ k_pc' = [k_pc EXCEPT ![j] = "poll"]
    /\ UNCHANGED <<configmap, job, k_elapsed, k_result, k_faults>>
    /\ UNCHANGED <<k_mode, k_epc, k_order, k_final, k_frames>>
    /\ UNCHANGED NotK8s

\* the task is cancelled while it waits in asyncio.sleep(2): CancelledError is
\* no Exception, so the except branch of _execute_single_test does not run
K_Cancel(j) ==
    /\ k_pc[j] = "sleep"
    /\ k_pc' = [k_pc EXCEPT ![j] = "cancelled"]
    /\ UNCHANGED <<configmap, job, k_elapsed, k_result, k_faults>>
    /\ UNCHANGED <<k_mode, k_epc, k_order, k_final, k_frames>>
    /\ UNCHANGED NotK8s

\* delete_namespaced_job answers 404 for a Job that does not exist
JobDeletable(st) == st \in {"active", "succeeded", "failed"}

\* faulty variant of AfterCleanup: an exception of _cleanup_resources reaches
\* the except branch of _execute_single_test
AfterCleanupPropagates(result, raised) ==
    IF raised THEN DriverResult(FALSE, <<"Execution error", ": ", "ApiException">>, "")
    ELSE result

\* what _execute_single_test returns after _cleanup_resources: the function
\* catches and logs its own exception, the caller returns the result it had
AfterCleanup(result, raised) == result

\* _cleanup_resources, then the return of _execute_single_test: the Job is
\* deleted first; when that raises, the ConfigMap is not deleted
K_Cleanup(j) ==
    /\ k_pc[j] = "cleanup"
    /\ \/ /\ JobDeletable(job[j])
          /\ job' = [job EXCEPT ![j] = "deleted"]
          /\ \/ /\ configmap[j] = "present"
                /\ configmap' = [configmap EXCEPT ![j] = "deleted"]
                /\ k_result' = [k_result EXCEPT ![j] = AfterCleanup(@, FALSE)]
                /\ UNCHANGED k_faults
             \/ /\ MayFail
                /\ k_faults' = k_faults - 1
                /\ k_result' = [k_result EXCEPT ![j] = AfterCleanup(@, TRUE)]
                /\ UNCHANGED configmap
       \/ /\ ~JobDeletable(job[j]) \/ MayFail
          /\ k_faults' = IF JobDeletable(job[j]) THEN k_faults - 1 ELSE k_faults
          /\ k_result' = [k_result EXCEPT ![j] = AfterCleanup(@, TRUE)]
          /\ UNCHANGED <<job, configmap>>
    /\ k_pc' = [k_pc EXCEPT ![j] = "done"]
    /\ k_order' = Append(k_order, j)
    /\ UNCHANGED <<k_elapsed, k_mode, k_epc, k_final, k_frames>>
    /\ UNCHANGED NotK8s

\* the pod of the Job terminates
K_JobFinishes(j) ==
    /\ job[j] = "active"
    /\ \E st \in {"succeeded", "failed"} : job' = [job EXCEPT ![j] = st]
    /\ UNCHANGED <<k_pc, configmap, k_elapsed, k_result, k_faults>>
    /\ UNCHANGED <<k_mode, k_epc, k_order, k_final, k_frames>>
    /\ UNCHANGED NotK8s

\* JOB_TIMEOUT_SECONDS pass since start_time while the call sleeps
K_TimePasses(j) ==
    /\ k_pc[j] = "sleep" /\ ~k_elapsed[j]
    /\ k_elapsed' = [k_elapsed EXCEPT ![j] = TRUE]
    /\ UNCHANGED <<k_pc, configmap, job, k_result, k_faults>>
    /\ UNCHANGED <<k_mode, k_epc, k_order, k_final, k_frames>>
    /\ UNCHANGED NotK8s

\* the id of the test that call j executes: tests[j].id
JobTestId(j) == <<"test", j>>

\* test_message.message_id of the request the endpoint is handling
RunnerMessageId == <<"message", 1>>

\* the TestResult that call j returned, with the test_id every return of
\* _execute_single_test and _wait_for_job_completion passes
TaskResult(j) == [test_id |-> JobTestId(j)] @@ k_result[j]

\* faulty variant of Gather: the results in the order the calls returned
GatherAsCompleted(order) == [i \in DOMAIN order |-> TaskResult(order[i])]

\* asyncio.gather(*tasks, return_exceptions=True) and the loop over its
\* results: one entry per task, in the order of tests
Gather(order) == [i \in DOMAIN order |-> TaskResult(i)]

\* faulty variant of FrameMessageId: the message id of the unused method
\* KubernetesTestRunner.execute_tests_streaming
FrameMessageIdEmpty(mid) == <<>>

\* message_id of the frames the endpoint sends for a request
FrameMessageId(mid) == mid

\* execute_tests returns final_results and the endpoint sends the TestResponse
K_Gather ==
    /\ k_mode = "batch" /\ k_epc = "handling"
    /\ \A j \in Jobs : k_pc[j] = "done"
    /\ k_final' = Gather(k_order)
    /\ k_frames' = Append(k_frames, [message_id |-> FrameMessageId(RunnerMessageId),
                                      results |-> k_final'])
    /\ k_epc' = "receive"
    /\ UNCHANGED <<k_pc, configmap, job, k_elapsed, k_result, k_faults, k_mode, k_order>>
    /\ UNCHANGED NotK8s

\* execute_and_send_with_id after _execute_single_test returned: the
\* IndividualTestResult is sent and the task ends
K_SendResult(j) ==
    /\ k_mode = "streaming" /\ k_pc[j] = "done"
    /\ k_frames' = Append(k_frames, [message_id |-> FrameMessageId(RunnerMessageId),
                                      test_result |-> TaskResult(j)])
    /\ k_pc' = [k_pc EXCEPT ![j] = "sent"]
    /\ UNCHANGED <<configmap, job, k_elapsed, k_result, k_faults, k_mode, k_epc,
                   k_order, k_final>>
    /\ UNCHANGED NotK8s

\* asyncio.gather of the streaming branch returns when every task has ended;
\* the endpoint goes back to receive_text
K_StreamingDone ==
    /\ k_mode = "streaming" /\ k_epc = "handling"
    /\ \A j \in Jobs : k_pc[j] = "sent"
    /\ k_epc' = "receive"
    /\ UNCHANGED <<k_pc, configmap, job, k_elapsed, k_result, k_faults, k_mode,
                   k_order, k_final, k_frames>>
    /\ UNCHANGED NotK8s

K8sInit(on, streaming) ==
    /\ k_pc = [j \in Jobs |-> IF j \in on THEN "start" ELSE "off"]
    /\ configmap = [j \in Jobs |-> "absent"]
    /\ job = [j \in Jobs |-> "absent"]
    /\ k_elapsed = [j \in Jobs |-> FALSE]
    /\ k_result = [j \in Jobs |-> NoResult]
    /\ k_faults = MaxApiFaults
    /\ k_mode = IF streaming THEN "streaming" ELSE "batch"
    /\ k_epc = "handling"
    /\ k_order = <<>>
    /\ k_final = <<>>
    /\ k_frames = <<>>

NextK8s ==
    \/ \E j \in Jobs : K_CreateConfigMap(j)
    \/ \E j \in Jobs : K_CreateJob(j)
    \/ \E j \in Jobs : K_Poll(j)
    \/ \E j \in Jobs : K_Wake(j)
    \/ \E j \in Jobs : K_Cancel(j)
    \/ \E j \in Jobs : K_Cleanup(j)
    \/ \E j \in Jobs : K_JobFinishes(j)
    \/ \E j \in Jobs : K_TimePasses(j)
    \/ K_Gather
    \/ \E j \in Jobs : K_SendResult(j)
    \/ K_StreamingDone

\* ------------------------------------------------------ container backend
Containers == 1..NumContainers

\* the TestResult built from the StatusCode of container.wait and the logs
ExitResult(code) ==
    DriverResult(code = 0,
                 IF code = 0 THEN <<>> ELSE <<"Test execution failed (exit code: ", code, ")">>,
                 "logs")

\* the delimiter of the here-document of the command
Delimiter == "EOFMARKER"

\* the lines test.code may consist of
SourceLines == {"pass", Delimiter}

\* test.code, as its lines
Sources == UNION {[1..n -> SourceLines] : n \in 1..MaxSourceLines}

\* `cat > /test/test_code.py << 'EOFMARKER'` followed by the lines ls and a
\* delimiter line: the shell copies the lines up to the first line that is the
\* delimiter, unexpanded because the delimiter is quoted
RECURSIVE HeredocBody(_)
HeredocBody(ls) ==
    IF ls = <<>> \/ Head(ls) = Delimiter THEN <<>>
    ELSE <<Head(ls)>> \o HeredocBody(Tail(ls))

\* the lines of ls the shell reads as commands: those after the first
\* delimiter line
AfterHeredoc(ls) == SubSeq(ls, Len(HeredocBody(ls)) + 2, Len(ls))

\* self.client.containers.run(..., command=command, detach=True, remove=True):
\* the shell of the container writes /test/test_code.py
D_Run(c) ==
    /\ c_pc[c] = "run"
    /\ \/ /\ container' = [container EXCEPT ![c] = "running"]
          /\ c_files' = [c_files EXCEPT ![c].test_code_py = HeredocBody(c_files[c].code),
                                        ![c].shell = AfterHeredoc(c_files[c].code)]
          /\ c_pc' = [c_pc EXCEPT ![c] = "wait"]
          /\ UNCHANGED c_result
       \/ /\ \E e \in {"Docker image not found", "Docker API error", "Execution error"} :
                c_result' = [c_result EXCEPT ![c] = DriverResult(FALSE, <<e>>, "")]
          /\ c_pc' = [c_pc EXCEPT ![c] = "done"]
          /\ UNCHANGED <<container, c_files>>
    /\ UNCHANGED exit_code
    /\ UNCHANGED NotDocker

\* container.wait(timeout=CONTAINER_TIMEOUT_SECONDS) returns the StatusCode
D_WaitReturns(c) ==
    /\ c_pc[c] = "wait"
    /\ container[c] \in {"exited", "removed"}
    /\ c_pc' = [c_pc EXCEPT ![c] = "logs"]
    /\ UNCHANGED <<container, exit_code, c_result, c_files>>
    /\ UNCHANGED NotDocker

\* container.wait raises after CONTAINER_TIMEOUT_SECONDS: except Exception
\* returns a failed result
D_WaitTimeout(c) ==
    /\ c_pc[c] = "wait"
    /\ container[c] = "running"
    /\ c_result' = [c_result EXCEPT ![c] = DriverResult(FALSE, <<"Execution error", ": ", "Read timed out">>, "")]
    /\ c_pc' = [c_pc EXCEPT ![c] = "done"]
    /\ UNCHANGED <<container, exit_code, c_files>>
    /\ UNCHANGED NotDocker

\* container.logs(), then the result is built from the StatusCode; the logs
\* of a container the daemon has removed are gone: APIError (NotFound)
D_Logs(c) ==
    /\ c_pc[c] = "logs"
    /\ c_result' = [c_result EXCEPT ![c] =
          IF container[c] = "removed"
          THEN DriverResult(FALSE, <<"Docker API error", ": ", "NotFound">>, "")
          ELSE ExitResult(exit_code[c])]
    /\ c_pc' = [c_pc EXCEPT ![c] = "done"]
    /\ UNCHANGED <<container, exit_code, c_files>>
    /\ UNCHANGED NotDocker

\* the task is cancelled while it awaits asyncio.to_thread(container.wait) or
\* asyncio.to_thread(container.logs): CancelledError is no Exception
D_Cancel(c) ==
    /\ c_pc[c] \in {"wait", "logs"}
    /\ c_pc' = [c_pc EXCEPT ![c] = "cancelled"]
    /\ UNCHANGED <<container, exit_code, c_result, c_files>>
    /\ UNCHANGED NotDocker

\* the test process ends
D_ContainerExits(c) ==
    /\ container[c] = "running"
    /\ container' = [container EXCEPT ![c] = "exited"]
    /\ \E code \in {0, 1} : exit_code' = [exit_code EXCEPT ![c] = code]
    /\ UNCHANGED <<c_pc, c_result, c_files>>
    /\ UNCHANGED NotDocker

\* the daemon removes the exited container (remove=True)
D_AutoRemove(c) ==
    /\ container[c] = "exited"
    /\ container' = [container EXCEPT ![c] = "removed"]
    /\ UNCHANGED <<c_pc, exit_code, c_result, c_files>>
    /\ UNCHANGED NotDocker

DockerInit(on) ==
    /\ c_pc = [c \in Containers |-> IF c \in on THEN "run" ELSE "off"]
    /\ container = [c \in Containers |-> "absent"]
    /\ exit_code = [c \in Containers |-> 0]
    /\ c_result = [c \in Containers |-> NoResult]
    /\ \E codes \in [on -> Sources] :
          c_files = [c \in Containers |->
                       [code |-> IF c \in on THEN codes[c] ELSE <<>>,
                        test_code_py |-> <<>>, shell |-> <<>>]]

NextDocker ==
    \/ \E c \in Containers : D_Run(c)
    \/ \E c \in Containers : D_WaitReturns(c)
    \/ \E c \in Containers : D_WaitTimeout(c)
    \/ \E c \in Containers : D_Logs(c)
    \/ \E c \in Containers : D_Cancel(c)
    \/ \E c \in Containers : D_ContainerExits(c)
    \/ \E c \in Containers : D_AutoRemove(c)

\* ------------------------------------------------------------- the session
\* ids the client puts on its requests
RequestIds == {"x", "y"}

\* the id of a response built without message_id (the default of
\* send_error_response)
NoId == ""

\* a frame written by a handler while it serves the request with id req
Response(req, id, type) == [req |-> req, id |-> id, type |-> type]

\* send_error_response(websocket, "error", error_message, message_id)
ErrorResponse(req, id) == Response(req, id, "error")

\* the loop has read a frame of class cls and the handler runs to its end,
\* writing fs
Respond(cls, fs) ==
    /\ s_left' = s_left - 1
    /\ s_read' = cls
    /\ s_out' = s_out \o fs
    /\ UNCHANGED <<s_pc, s_req, s_peer>>
    /\ UNCHANGED NotSession

\* the frame is no JSON: send_error_message("Invalid JSON format.")
S_InvalidJson ==
    /\ s_pc = "receive" /\ s_left > 0
    /\ Respond("invalid_json", <<ErrorResponse(NoId, NoId)>>)

\* handle_test_ai_message: the message is invalid or has no key, or the
\* detection raises (send_ai_connection_error); no model is detected (error
\* with the id of the message); a model is detected (ai_test_result)
H_TestAi ==
    /\ s_pc = "receive" /\ s_left > 0
    /\ \E x \in RequestIds :
          \E fs \in {<<ErrorResponse(x, NoId)>>, <<ErrorResponse(x, x)>>,
                     <<Response(x, x, "ai_test_result")>>} : Respond("test_ai", fs)

\* handle_verify_code_message: invalid message, no code, invalid code
\* (send_invalid_message_format_error, send_no_code_provided_error,
\* send_invalid_code_format_error), or verify_code_result
H_VerifyCode ==
    /\ s_pc = "receive" /\ s_left > 0
    /\ \E x \in RequestIds :
          \E fs \in {<<ErrorResponse(x, NoId)>>,
                     <<Response(x, x, "verify_code_result")>>} : Respond("verify_code", fs)

\* validate_and_prepare_request fails: validate_code_and_get_function or
\* validate_ai_access sends its error and the handler returns
ValidationFailure(x) == <<ErrorResponse(x, NoId)>>

\* handle_generate_docs_message: validation fails, the generator raises
\* (send_docs_generation_error), or return_docs
H_GenerateDocs ==
    /\ s_pc = "receive" /\ s_left > 0
    /\ \E x \in RequestIds :
          \E fs \in {ValidationFailure(x), <<ErrorResponse(x, NoId)>>,
                     <<Response(x, x, "return_docs")>>} : Respond("generate_docs", fs)

\* handle_generate_improvements_message: validation fails, the generator
\* raises (send_improvements_generation_error), or return_improvements
H_GenerateImprovements ==
    /\ s_pc = "receive" /\ s_left > 0
    /\ \E x \in RequestIds :
          \E fs \in {ValidationFailure(x), <<ErrorResponse(x, NoId)>>,
                     <<Response(x, x, "return_improvements")>>} : Respond("generate_improvements", fs)

\* faulty variant of H_NoResponse: the frame is answered with an error response
H_NoResponseError ==
    /\ s_pc = "receive" /\ s_left > 0
    /\ \E cls \in {"pong", "unknown_type"} :
          Respond(cls, <<ErrorResponse(NoId, NoId)>>)

\* "pong" and a type no case names, which a missing type is as well
\* (message.get("type") is None): logged, no response
H_NoResponse ==
    /\ s_pc = "receive" /\ s_left > 0
    /\ \E cls \in {"pong", "unknown_type"} : Respond(cls, <<>>)

\* the frame is JSON but no object: message.get raises AttributeError, which
\* leaves the loop through `except Exception`: manager.disconnect and raise
S_NotAnObject ==
    /\ s_pc = "receive" /\ s_left > 0
    /\ s_left' = s_left - 1
    /\ s_read' = "not_object"
    /\ s_pc' = "ended"
    /\ UNCHANGED <<s_req, s_out, s_peer>>
    /\ UNCHANGED NotSession

\* no dispatch of this process has been requested yet
NoDispatchYet == \A d \in Dispatches : pc[d] = "off"

\* handle_generate_tests_message: validation fails, or generate_all_tests
\* creates one task per kind with message_id = validated_message.id
H_GenerateTests ==
    /\ s_pc = "receive" /\ s_left > 0
    /\ s_left' = s_left - 1
    /\ s_read' = "generate_tests"
    /\ UNCHANGED s_peer
    /\ \E x \in RequestIds :
          \/ /\ s_out' = s_out \o ValidationFailure(x)
             /\ UNCHANGED <<s_pc, s_req, pc, req_id>>
          \/ /\ NoDispatchYet
             /\ pc' = [d \in Dispatches |-> IF d \in Kinds THEN "init" ELSE pc[d]]
             /\ req_id' = [d \in Dispatches |-> IF d \in Kinds THEN x ELSE req_id[d]]
             /\ s_pc' = "generate_tests"
             /\ s_req' = x
             /\ UNCHANGED s_out
    /\ UNCHANGED <<mode, tests, message_id, attempt, retry_delay, completed_tests,
                   link, connects, sleeps, sink, ret, returned, budget, test,
                   tasks, out>>
    /\ UNCHANGED <<answered, dropped, quota, malformed>>
    /\ UNCHANGED <<kvars, dvars, ovars>>

\* asyncio.gather of generate_all_tests returns: every branch has ended
H_GenerateTestsReturn ==
    /\ s_pc = "generate_tests"
    /\ \A d \in Kinds : pc[d] \in {"done", "aborted"}
    /\ s_pc' = "receive"
    /\ UNCHANGED <<s_req, s_out, s_left, s_peer, s_read>>
    /\ UNCHANGED NotSession

\* handle_run_tests_message: no tests or a test that does not deserialise
\* (errors with message_id), or the tests are handed to execute_tests
H_RunTests ==
    /\ s_pc = "receive" /\ s_left > 0
    /\ s_left' = s_left - 1
    /\ s_read' = "run_tests"
    /\ UNCHANGED s_peer
    /\ \E x \in RequestIds :
          \/ /\ s_out' = Append(s_out, ErrorResponse(x, x))
             /\ UNCHANGED <<s_pc, s_req, pc, req_id>>
          \/ /\ NoDispatchYet
             /\ pc' = [pc EXCEPT ![1] = "run"]
             /\ req_id' = [req_id EXCEPT ![1] = x]
             /\ s_pc' = "run_tests"
             /\ s_req' = x
             /\ UNCHANGED s_out
    /\ UNCHANGED <<mode, tests, message_id, attempt, retry_delay, completed_tests,
                   link, connects, sleeps, sink, ret, returned, budget, test,
                   tasks, out>>
    /\ UNCHANGED <<answered, dropped, quota, malformed>>
    /\ UNCHANGED <<kvars, dvars, ovars>>

\* the tests of the request that have type k, in request order
OfKind(ts, k) == SelectSeq(ts, LAMBDA t : test[t].type = k)

\* faulty variant of RunTestsFrames: a frame is written for every kind, also
\* for a kind without tests
RunTestsFramesAllKinds(d, tb) ==
    [i \in DOMAIN KindNames |->
        [type |-> "return_" \o KindNames[i] \o "_tests", id |-> req_id[d],
         tests |-> Snapshot(tb, OfKind(tests[d], KindNames[i]))]]

\* handle_run_tests_message after execute_tests: results[i] is copied into
\* tests[i] for i < len(results); one frame per kind that has tests, in the
\* order unit, memory, performance
RunTestsFrames(d, tb) ==
    LET frame(k) == [type |-> "return_" \o k \o "_tests", id |-> req_id[d],
                     tests |-> Snapshot(tb, OfKind(tests[d], k))]
        kinds == SelectSeq(KindNames, LAMBDA k : OfKind(tests[d], k) # <<>>)
    IN  [i \in 1..Len(kinds) |-> frame(kinds[i])]

H_RunTestsReturn ==
    /\ s_pc = "run_tests"
    /\ pc[1] = "done"
    /\ test' = [t \in DOMAIN test |->
                  IF \E i \in DOMAIN tests[1] : tests[1][i] = t /\ i <= Len(ret[1].results)
                  THEN LET i == CHOOSE i \in DOMAIN tests[1] : tests[1][i] = t
                       IN  [test[t] EXCEPT !.execution_success = ret[1].results[i].success,
                                           !.writes = @ + 1]
                  ELSE test[t]]
    /\ out' = [out EXCEPT ![1] = Delivered(@, RunTestsFrames(1, test'))]
    /\ pc' = [pc EXCEPT ![1] = "sent"]
    /\ \/ s_pc' = "receive"
       \/ SendRaises /\ RunTestsFrames(1, test') # <<>> /\ s_pc' = "ended"
    /\ UNCHANGED <<s_req, s_out, s_left, s_peer, s_read>>
    /\ UNCHANGED <<mode, tests, message_id, attempt, retry_delay, completed_tests,
                   link, connects, sleeps, sink, ret, returned, budget, tasks,
                   req_id>>
    /\ UNCHANGED <<answered, dropped, quota, malformed>>
    /\ UNCHANGED <<kvars, dvars, ovars>>

\* the client closes its end of the websocket; it sends nothing after that
S_ClientDisconnect ==
    /\ s_peer = "open" /\ s_pc # "ended"
    /\ s_peer' = "closed"
    /\ s_left' = 0
    /\ UNCHANGED <<s_pc, s_req, s_out, s_read>>
    /\ UNCHANGED NotSession

\* receive_text raises WebSocketDisconnect: manager.disconnect, the keepalive
\* task is cancelled and the endpoint returns
S_ReceiveDisconnect ==
    /\ s_pc = "receive" /\ s_peer = "closed"
    /\ s_pc' = "ended"
    /\ UNCHANGED <<s_req, s_out, s_left, s_peer, s_read>>
    /\ UNCHANGED NotSession

SessionInit(frames) ==
    /\ s_pc = "receive"
    /\ s_req = NoId
    /\ s_out = <<>>
    /\ s_left = frames
    /\ s_peer = "open"
    /\ s_read = ""

NextSession ==
    \/ S_InvalidJson
    \/ S_NotAnObject
    \/ H_TestAi
    \/ H_VerifyCode
    \/ H_GenerateDocs
    \/ H_GenerateImprovements
    \/ H_NoResponse
    \/ H_GenerateTests
    \/ H_GenerateTestsReturn
    \/ H_RunTests
    \/ H_RunTestsReturn

\* ------------------------------------------- the writers of the channel
\* Every write is `await websocket.send_text(...)`: the task enters the send,
\* may be suspended inside it, and leaves it when the send returns.  No lock,
\* queue or writer task stands between the tasks and the websocket.
\* the tasks that write: the kind branches, their send_update tasks and keepalive
BranchTask(b) == <<"branch", b>>

UpdateTask(b, i) == <<"update", b, i>>

KeepaliveTask == <<"keepalive">>

\* generate_and_send_test calls send_response_message with a snapshot
W_BranchSend(b) ==
    /\ w_branch[b] \in {"pending", "running"}
    /\ w_branch' = [w_branch EXCEPT ![b] = "send_" \o @]
    /\ w_inside' = w_inside \cup {BranchTask(b)}
    /\ UNCHANGED <<w_results, w_tasks, w_keepalive, w_pings>>
    /\ UNCHANGED <<cvars, kvars, dvars, svars, mvars, gvars>>

\* the send of a snapshot returns: after the pending snapshot the statuses are
\* set to running, after the running snapshot execute_tests_streaming is awaited
W_BranchSent(b) ==
    /\ w_branch[b] \in {"send_pending", "send_running"}
    /\ w_branch' = [w_branch EXCEPT ![b] = IF @ = "send_pending" THEN "running" ELSE "execute"]
    /\ w_inside' = w_inside \ {BranchTask(b)}
    /\ UNCHANGED <<w_results, w_tasks, w_keepalive, w_pings>>
    /\ UNCHANGED <<cvars, kvars, dvars, svars, mvars, gvars>>

\* handle_test_result_sync: asyncio.create_task(send_update())
W_Result(b) ==
    /\ w_branch[b] = "execute" /\ w_results[b] > 0
    /\ w_tasks' = w_tasks \cup {UpdateTask(b, w_results[b])}
    /\ w_results' = [w_results EXCEPT ![b] = @ - 1]
    /\ UNCHANGED <<w_branch, w_inside, w_keepalive, w_pings>>
    /\ UNCHANGED <<cvars, kvars, dvars, svars, mvars, gvars>>

\* execute_tests_streaming returns and the branch ends
W_BranchDone(b) ==
    /\ w_branch[b] = "execute" /\ w_results[b] = 0
    /\ w_branch' = [w_branch EXCEPT ![b] = "done"]
    /\ UNCHANGED <<w_results, w_tasks, w_inside, w_keepalive, w_pings>>
    /\ UNCHANGED <<cvars, kvars, dvars, svars, mvars, gvars>>

\* send_update calls send_response_message with the test_result_update
W_UpdateSend(t) ==
    /\ t \in w_tasks
    /\ w_tasks' = w_tasks \ {t}
    /\ w_inside' = w_inside \cup {t}
    /\ UNCHANGED <<w_branch, w_results, w_keepalive, w_pings>>
    /\ UNCHANGED <<cvars, kvars, dvars, svars, mvars, gvars>>

\* the send of send_update returns and the task ends
W_UpdateSent(t) ==
    /\ t \in w_inside /\ t[1] = "update"
    /\ w_inside' = w_inside \ {t}
    /\ UNCHANGED <<w_branch, w_results, w_tasks, w_keepalive, w_pings>>
    /\ UNCHANGED <<cvars, kvars, dvars, svars, mvars, gvars>>

\* keepalive: asyncio.sleep(ping_interval) returns and the ping is sent
W_KeepaliveSend ==
    /\ w_keepalive = "sleep" /\ w_pings > 0
    /\ w_keepalive' = "send"
    /\ w_pings' = w_pings - 1
    /\ w_inside' = w_inside \cup {KeepaliveTask}
    /\ UNCHANGED <<w_branch, w_results, w_tasks>>
    /\ UNCHANGED <<cvars, kvars, dvars, svars, mvars, gvars>>

\* keepalive: the send of the ping returns
W_KeepaliveSent ==
    /\ w_keepalive = "send"
    /\ w_keepalive' = "sleep"
    /\ w_inside' = w_inside \ {KeepaliveTask}
    /\ UNCHANGED <<w_branch, w_results, w_tasks, w_pings>>
    /\ UNCHANGED <<cvars, kvars, dvars, svars, mvars, gvars>>

\* the session when generate_all_tests has created its three tasks; the
\* keepalive task runs since the session was accepted
WritersInit(on) ==
    /\ w_branch = [b \in Kinds |-> IF on THEN "pending" ELSE "off"]
    /\ w_results = [b \in Kinds |-> IF on THEN MaxUpdates ELSE 0]
    /\ w_tasks = {}
    /\ w_inside = {}
    /\ w_keepalive = IF on THEN "sleep" ELSE "off"
    /\ w_pings = IF on THEN MaxPings ELSE 0

NextWriters ==
    \/ \E b \in Kinds : W_BranchSend(b)
    \/ \E b \in Kinds : W_BranchSent(b)
    \/ \E b \in Kinds : W_Result(b)
    \/ \E b \in Kinds : W_BranchDone(b)
    \/ \E b \in Kinds, i \in 1..MaxUpdates : W_UpdateSend(UpdateTask(b, i))
    \/ \E b \in Kinds, i \in 1..MaxUpdates : W_UpdateSent(UpdateTask(b, i))
    \/ W_KeepaliveSend
    \/ W_KeepaliveSent

\* ------------------------------------- ConnectionManager and the sessions
Sessions == 1..NumSessions

\* faulty variant of Remove: the connection registered last is dropped
RemoveLast(conns, ws) == SubSeq(conns, 1, Len(conns) - 1)

\* list.remove(websocket): the first element equal to ws is dropped (WebSocket
\* objects are equal only when identical)
Remove(conns, ws) ==
    LET i == CHOOSE i \in DOMAIN conns : conns[i] = ws /\ \A j \in 1..(i - 1) : conns[j] # ws
    IN  SubSeq(conns, 1, i - 1) \o SubSeq(conns, i + 1, Len(conns))

\* keepalive_task.cancel() of the finally block: a task that has ended stays as it is
Cancelled(k) == IF k = "running" THEN "cancelled" ELSE k

\* manager.disconnect(websocket) in an except branch of the endpoint, then the
\* finally block
EndSession(s) ==
    /\ s \in Range(active_connections)
    /\ active_connections' = Remove(active_connections, s)
    /\ m_removed' = [m_removed EXCEPT ![s] = @ + 1]
    /\ m_keepalive' = [m_keepalive EXCEPT ![s] = Cancelled(@)]
    /\ m_pc' = [m_pc EXCEPT ![s] = "ended"]

\* manager.connect: accept and append, or accept raises and the endpoint
\* re-raises; then the keepalive task is created
M_Connect(s) ==
    /\ m_pc[s] = "new"
    /\ \/ /\ active_connections' = Append(active_connections, s)
          /\ m_pc' = [m_pc EXCEPT ![s] = "receive"]
          /\ m_keepalive' = [m_keepalive EXCEPT ![s] = "running"]
          /\ UNCHANGED m_peer
       \/ /\ m_pc' = [m_pc EXCEPT ![s] = "rejected"]
          /\ m_peer' = [m_peer EXCEPT ![s] = "closed"]
          /\ UNCHANGED <<active_connections, m_keepalive>>
    /\ UNCHANGED m_removed
    /\ UNCHANGED <<m_pings, cvars, kvars, dvars, svars, wvars, gvars>>

\* receive_text returns a frame and its handler is awaited
M_Receive(s) ==
    /\ m_pc[s] = "receive" /\ m_peer[s] = "open"
    /\ m_pc' = [m_pc EXCEPT ![s] = "handling"]
    /\ UNCHANGED <<active_connections, m_peer, m_keepalive, m_removed>>
    /\ UNCHANGED <<m_pings, cvars, kvars, dvars, svars, wvars, gvars>>

\* the handler returns and the loop goes back to receive_text
M_HandlerReturns(s) ==
    /\ m_pc[s] = "handling"
    /\ m_pc' = [m_pc EXCEPT ![s] = "receive"]
    /\ UNCHANGED <<active_connections, m_peer, m_keepalive, m_removed>>
    /\ UNCHANGED <<m_pings, cvars, kvars, dvars, svars, wvars, gvars>>

\* the handler raises: except Exception of the endpoint
M_HandlerRaises(s) ==
    /\ m_pc[s] = "handling"
    /\ EndSession(s)
    /\ UNCHANGED m_peer
    /\ UNCHANGED <<m_pings, cvars, kvars, dvars, svars, wvars, gvars>>

\* the client closes its end of the websocket
M_ClientCloses(s) ==
    /\ m_pc[s] \in {"receive", "handling"} /\ m_peer[s] = "open"
    /\ m_peer' = [m_peer EXCEPT ![s] = "closed"]
    /\ UNCHANGED <<active_connections, m_pc, m_keepalive, m_removed>>
    /\ UNCHANGED <<m_pings, cvars, kvars, dvars, svars, wvars, gvars>>

\* receive_text raises WebSocketDisconnect
M_ReceiveDisconnect(s) ==
    /\ m_pc[s] = "receive" /\ m_peer[s] = "closed"
    /\ EndSession(s)
    /\ UNCHANGED m_peer
    /\ UNCHANGED <<m_pings, cvars, kvars, dvars, svars, wvars, gvars>>

\* keepalive: asyncio.sleep(ping_interval) returns and the ping is sent; the
\* task runs whenever the endpoint is suspended, at receive_text or inside a
\* handler; nothing waits for an answer
M_Ping(s) ==
    /\ m_keepalive[s] = "running" /\ m_peer[s] = "open" /\ m_pc[s] # "ended"
    /\ Len(m_pings[s]) < MaxPings
    /\ m_pings' = [m_pings EXCEPT ![s] = Append(@, m_pc[s])]
    /\ UNCHANGED <<active_connections, m_pc, m_peer, m_keepalive, m_removed>>
    /\ UNCHANGED <<cvars, kvars, dvars, svars, wvars, gvars>>

\* faulty variant of M_PingFails: a ping to a client that is still there fails
M_PingFailsOpen(s) ==
    /\ m_keepalive[s] = "running" /\ m_pc[s] # "ended"
    /\ m_keepalive' = [m_keepalive EXCEPT ![s] = "stopped"]
    /\ UNCHANGED <<active_connections, m_pc, m_peer, m_removed>>
    /\ UNCHANGED <<m_pings, cvars, kvars, dvars, svars, wvars, gvars>>

\* keepalive: the ping cannot be sent and the loop breaks
M_PingFails(s) ==
    /\ m_keepalive[s] = "running" /\ m_peer[s] = "closed" /\ m_pc[s] # "ended"
    /\ m_keepalive' = [m_keepalive EXCEPT ![s] = "stopped"]
    /\ UNCHANGED <<active_connections, m_pc, m_peer, m_removed>>
    /\ UNCHANGED <<m_pings, cvars, kvars, dvars, svars, wvars, gvars>>

GeneratorInit(faults) ==
    /\ g_faults = faults
    /\ g_error = [d \in Dispatches |-> FALSE]

ManagerInit(on) ==
    /\ active_connections = <<>>
    /\ m_pc = [s \in Sessions |-> IF on THEN "new" ELSE "off"]
    /\ m_peer = [s \in Sessions |-> "open"]
    /\ m_keepalive = [s \in Sessions |-> "none"]
    /\ m_removed = [s \in Sessions |-> 0]
    /\ m_pings = [s \in Sessions |-> <<>>]

NextSessions ==
    \/ \E s \in Sessions : M_Connect(s)
    \/ \E s \in Sessions : M_Receive(s)
    \/ \E s \in Sessions : M_HandlerReturns(s)
    \/ \E s \in Sessions : M_HandlerRaises(s)
    \/ \E s \in Sessions : M_ClientCloses(s)
    \/ \E s \in Sessions : M_ReceiveDisconnect(s)
    \/ \E s \in Sessions : M_Ping(s)
    \/ \E s \in Sessions : M_PingFails(s)

\* ------------------------------------------------------------ specification
\* the state of the orchestrator before the dispatches are requested: start
\* gives the position of each, "init" for a kind branch of generate_tests,
\* "run" for the dispatch of run_tests, "off" for one not requested
ClientInit(start, ids, events, created) ==
    /\ pc = start
    /\ quota = created
    /\ malformed = [d \in Dispatches |-> FALSE]
    /\ req_id = ids
    /\ mode = [d \in Dispatches |-> "none"]
    /\ tests = [d \in Dispatches |-> <<>>]
    /\ message_id = [d \in Dispatches |-> 0]
    /\ attempt = [d \in Dispatches |-> 0]
    /\ retry_delay = [d \in Dispatches |-> initial_retry_delay]
    /\ completed_tests = [d \in Dispatches |-> 0]
    /\ link = [d \in Dispatches |-> 0]
    /\ answered = [d \in Dispatches |-> {}]
    /\ dropped = [d \in Dispatches |-> {}]
    /\ connects = [d \in Dispatches |-> 0]
    /\ sleeps = [d \in Dispatches |-> <<>>]
    /\ sink = [d \in Dispatches |-> <<>>]
    /\ ret = [d \in Dispatches |-> [results |-> <<>>, from |-> Synthesized]]
    /\ returned = [d \in Dispatches |-> "no"]
    /\ budget = events
    /\ test = <<>>
    /\ tasks = <<>>
    /\ out = [d \in Dispatches |-> <<>>]

NextStreaming ==
    \/ \E d \in Dispatches : Generate(d)
    \/ \E d \in Dispatches : SendRunning(d)
    \/ \E d \in Dispatches : ExecuteTestsStreaming(d)
    \/ SendUpdate
    \/ \E d \in Dispatches : S_ConnectOk(d)
    \/ \E d \in Dispatches : S_ConnectFailed(d)
    \/ \E d \in Dispatches : S_Sleep(d)
    \/ \E d \in Dispatches : S_RecvTestResult(d)
    \/ \E d \in Dispatches : S_RecvResults(d)
    \/ \E d \in Dispatches : S_RecvOther(d)
    \/ \E d \in Dispatches : S_RecvFatal(d)
    \/ \E d \in Dispatches : S_RecvTimeout(d)
    \/ \E d \in Dispatches : S_RecvClosed(d)

NextBatch ==
    \/ \E d \in Dispatches : ExecuteTests(d)
    \/ \E d \in Dispatches : B_ConnectOk(d)
    \/ \E d \in Dispatches : B_ConnectFailed(d)
    \/ \E d \in Dispatches : B_Sleep(d)
    \/ \E d \in Dispatches : B_RecvResponse(d)
    \/ \E d \in Dispatches : B_RecvFatal(d)
    \/ \E d \in Dispatches : B_RecvFailed(d)

\* one dispatch, streaming or batched, against a link that produces up to
\* MaxEvents events
Init ==
    /\ \E p \in {"init", "run"} :
          ClientInit([d \in Dispatches |-> IF d = 1 THEN p ELSE "off"], OneSession, MaxEvents, MaxTests)
    /\ K8sInit({}, FALSE) /\ GeneratorInit(0) /\ DockerInit({}) /\ SessionInit(0) /\ WritersInit(FALSE) /\ ManagerInit(FALSE)

Next == NextStreaming \/ NextBatch

Spec == Init /\ [][Next]_vars

\* one streaming dispatch against a link whose peer may also repeat a result
\* or answer for a test that was not asked, under the message_id of the
\* request
InitFrames ==
    /\ ClientInit([d \in Dispatches |-> IF d = 1 THEN "init" ELSE "off"], OneSession, MaxEvents, MaxTests)
    /\ K8sInit({}, FALSE) /\ GeneratorInit(0) /\ DockerInit({}) /\ SessionInit(0) /\ WritersInit(FALSE) /\ ManagerInit(FALSE)

NextFrames ==
    \/ NextStreaming
    \/ \E d \in Dispatches : S_RecvUnexpected(d)

SpecFrames == InitFrames /\ [][NextFrames]_vars

\* all dispatches run concurrently in streaming mode (the kind branches of
\* generate_all_tests), against links that produce up to MaxConcurrentEvents
\* events in total
InitConcurrent ==
    /\ ClientInit([d \in Dispatches |-> IF d \in Kinds THEN "init" ELSE "off"], OneSession,
                  MaxConcurrentEvents, MaxConcurrentTests)
    /\ K8sInit({}, FALSE) /\ GeneratorInit(0) /\ DockerInit({}) /\ SessionInit(0) /\ WritersInit(FALSE) /\ ManagerInit(FALSE)

SpecConcurrent == InitConcurrent /\ [][NextStreaming]_vars

\* the tests of one request run as concurrent calls of
\* KubernetesTestRunner._execute_single_test
InitK8s ==
    /\ ClientInit([d \in Dispatches |-> "off"], OneSession, 0, 0)
    /\ \E streaming \in BOOLEAN : K8sInit(Jobs, streaming)
    /\ GeneratorInit(0) /\ DockerInit({}) /\ SessionInit(0) /\ WritersInit(FALSE) /\ ManagerInit(FALSE)

SpecK8s == InitK8s /\ [][NextK8s]_vars

\* the event loop runs every task that is ready, Jobs do not suspend the
\* calls that watch them, and the clock reaches the deadline of a call that
\* keeps sleeping
K8sFairness ==
    /\ \A j \in Jobs :
          /\ WF_vars(K_CreateConfigMap(j)) /\ WF_vars(K_CreateJob(j))
          /\ WF_vars(K_Poll(j)) /\ WF_vars(K_Wake(j)) /\ WF_vars(K_Cleanup(j))
          /\ WF_vars(K_SendResult(j))
          /\ SF_vars(K_TimePasses(j))
    /\ WF_vars(K_Gather) /\ WF_vars(K_StreamingDone)

SpecK8sFair == SpecK8s /\ K8sFairness

\* the tests of one request run as concurrent calls of
\* DockerTestRunner._execute_single_test
InitDocker ==
    /\ ClientInit([d \in Dispatches |-> "off"], OneSession, 0, 0)
    /\ K8sInit({}, FALSE) /\ GeneratorInit(0) /\ DockerInit(Containers) /\ SessionInit(0) /\ WritersInit(FALSE) /\ ManagerInit(FALSE)

SpecDocker == InitDocker /\ [][NextDocker]_vars

\* one session whose client sends up to MaxRequests frames; the dispatches of
\* its generate_tests or run_tests request create up to MaxSessionTests tests
\* and run against links that produce up to MaxSessionEvents events
InitSession ==
    /\ ClientInit([d \in Dispatches |-> "off"], OneSession, MaxSessionEvents, MaxSessionTests)
    /\ K8sInit({}, FALSE) /\ GeneratorInit(0) /\ DockerInit({}) /\ SessionInit(MaxRequests) /\ WritersInit(FALSE) /\ ManagerInit(FALSE)

SpecSession == InitSession /\ [][NextSession \/ NextStreaming \/ NextBatch]_vars

\* one session whose client sends up to MaxRequests run_tests requests; the
\* batched dispatch has up to MaxRunTests tests and runs against a link that
\* produces up to MaxRunEvents events
InitRunTests ==
    /\ ClientInit([d \in Dispatches |-> "off"], OneSession, MaxRunEvents, MaxRunTests)
    /\ K8sInit({}, FALSE) /\ GeneratorInit(0) /\ DockerInit({}) /\ SessionInit(MaxRequests) /\ WritersInit(FALSE) /\ ManagerInit(FALSE)

NextRunTests ==
    \/ H_RunTests
    \/ H_RunTestsReturn
    \/ NextBatch

SpecRunTests == InitRunTests /\ [][NextRunTests]_vars

\* one session whose client sends up to MaxPipelinedRequests frames one after
\* the other without waiting for the answers
InitPipelined ==
    /\ ClientInit([d \in Dispatches |-> "off"], OneSession, MaxSessionEvents, MaxSessionTests)
    /\ K8sInit({}, FALSE) /\ GeneratorInit(0) /\ DockerInit({}) /\ SessionInit(MaxPipelinedRequests) /\ WritersInit(FALSE) /\ ManagerInit(FALSE)

SpecPipelined == InitPipelined /\ [][NextSession \/ NextStreaming \/ NextBatch]_vars

\* one session whose client may close its end at any moment
NextDisconnect ==
    \/ NextSession \/ NextStreaming \/ NextBatch
    \/ S_ClientDisconnect
    \/ S_ReceiveDisconnect

SpecDisconnect == InitSession /\ [][NextDisconnect]_vars

\* two sessions whose generate_tests requests are served at once: the
\* branches of both run concurrently; up to MaxIsolationBranches of them, at
\* least one of each session, have their generator return while the sessions
\* are observed, create up to MaxIsolationTests tests and run against links
\* that produce up to MaxIsolationEvents events
InitIsolation ==
    /\ \E n \in 1..(Len(KindNames) - 1) :
          /\ n + 1 <= MaxIsolationBranches
          /\ ClientInit([d \in Dispatches |->
                            IF d <= n \/ d = Len(KindNames) THEN "init" ELSE "off"],
                        TwoSessions, MaxIsolationEvents, MaxIsolationTests)
    /\ K8sInit({}, FALSE) /\ GeneratorInit(0) /\ DockerInit({}) /\ SessionInit(0) /\ WritersInit(FALSE) /\ ManagerInit(FALSE)

SpecIsolation == InitIsolation /\ [][NextStreaming]_vars

\* the three kind branches of one generate_tests request, up to
\* MaxGeneratorFaults of whose generators raise, against links that fail
InitFaults ==
    /\ ClientInit([d \in Dispatches |-> "init"], OneSession, MaxFaultEvents, MaxFaultTests)
    /\ K8sInit({}, FALSE) /\ GeneratorInit(MaxGeneratorFaults) /\ DockerInit({}) /\ SessionInit(0) /\ WritersInit(FALSE) /\ ManagerInit(FALSE)

SpecFaults == InitFaults /\ [][NextStreaming]_vars

\* the tasks that write to the channel of one session while it serves a
\* generate_tests request
InitWriters ==
    /\ ClientInit([d \in Dispatches |-> "off"], OneSession, 0, 0)
    /\ K8sInit({}, FALSE) /\ GeneratorInit(0) /\ DockerInit({}) /\ SessionInit(0) /\ WritersInit(TRUE)
    /\ ManagerInit(FALSE)

SpecWriters == InitWriters /\ [][NextWriters]_vars

\* the sessions of the service from their connection attempt to their end
InitSessions ==
    /\ ClientInit([d \in Dispatches |-> "off"], OneSession, 0, 0)
    /\ K8sInit({}, FALSE) /\ GeneratorInit(0) /\ DockerInit({}) /\ SessionInit(0) /\ WritersInit(FALSE)
    /\ ManagerInit(TRUE)

SpecSessions == InitSessions /\ [][NextSessions]_vars

\* ================================================================ claims
\* statuses of test t in the frames the client has read from branch d, in order
Mentions(f, t) == \E i \in DOMAIN f.tests : f.tests[i].id = t

StatusIn(f, t) == f.tests[CHOOSE i \in DOMAIN f.tests : f.tests[i].id = t].status

Observed(d, t) ==
    LET fs == SelectSeq(out[d], LAMBDA f : Mentions(f, t))
    IN  [i \in 1..Len(fs) |-> StatusIn(fs[i], t)]

\* number of frames that give the client a terminal result of test t
TerminalFrames(d, t) ==
    Cardinality({k \in DOMAIN out[d] :
        /\ out[d][k].type = "test_result_update"
        /\ Mentions(out[d][k], t)
        /\ StatusIn(out[d][k], t) \in Terminal})

PendingTasks(d) == {k \in DOMAIN tasks : tasks[k].d = d}

\* C1: for every streaming dispatch and every test of it, the client is given
\* at most one terminal result, and exactly one once the dispatch has returned
\* and its update tasks have run.
C1_UniqueTerminal ==
    \A d \in Dispatches : mode[d] = "streaming" =>
        \A t \in Range(tests[d]) :
            /\ TerminalFrames(d, t) <= 1
            /\ (pc[d] = "done" /\ PendingTasks(d) = {}) => TerminalFrames(d, t) = 1

\* C2: the statuses the client observes for a test form a prefix of
\* pending, running, (success | failed), and the execution fields of a test are
\* written at most once.
ChainPrefix(o) ==
    /\ Len(o) <= 3
    /\ Len(o) >= 1 => o[1] = "pending"
    /\ Len(o) >= 2 => o[2] = "running"
    /\ Len(o) >= 3 => o[3] \in Terminal

C2_MonotoneStatus ==
    \A d \in Dispatches : \A t \in Range(tests[d]) :
        /\ ChainPrefix(Observed(d, t))
        /\ test[t].writes <= 1

\* C3: when _execute_single_test of the orchestrated-job backend has returned,
\* the ConfigMap and the Job it created have been deleted.
Leaked(j) == configmap[j] = "present" \/ JobDeletable(job[j])

C3_NoLeakOnReturn == \A j \in Jobs : k_pc[j] = "done" => ~Leaked(j)

\* C4: when a call of _execute_single_test has been cancelled in flight, the
\* Job and the ConfigMap it created have been deleted.
C4_CancelReleases == \A j \in Jobs : k_pc[j] = "cancelled" => ~Leaked(j)

\* C5: when _execute_single_test of the container backend has returned, the
\* container it started is no longer running.
C5_ContainerReleased == \A c \in Containers : c_pc[c] = "done" => container[c] # "running"

\* C6: every response frame caused by a request with id x carries id x.
C6_IdEcho ==
    /\ \A k \in DOMAIN s_out : s_out[k].id = s_out[k].req
    /\ \A d \in Dispatches : \A k \in DOMAIN out[d] : out[d][k].id = req_id[d]

\* C7: when the connection attempts of a dispatch are exhausted, every test of
\* it has a synthesized failed result whose error starts with "Test runner
\* communication error": through the sink in streaming mode, as the aligned
\* return value in batched mode.
IsCommFailure(r, t) ==
    /\ r.test_id = t
    /\ r.success = FALSE
    /\ StartsWith(r.error, "Test runner communication error")

C7_ExhaustedSynthesizes ==
    \A d \in Dispatches : returned[d] = "exhausted" =>
        /\ mode[d] = "streaming" =>
              \A i \in DOMAIN tests[d] : \E k \in DOMAIN sink[d] :
                  sink[d][k].from = Synthesized /\ IsCommFailure(sink[d][k], tests[d][i])
        /\ mode[d] = "batch" =>
              /\ Len(ret[d].results) = Len(tests[d])
              /\ \A i \in DOMAIN tests[d] : IsCommFailure(ret[d].results[i], tests[d][i])

C7_Witness ==
    /\ returned[1] = "exhausted"
    /\ mode[1] = "streaming"
    /\ Len(tests[1]) >= 2
    /\ Len(sink[1]) >= 2

\* C8: a dispatch connects at most 3 times, waits 2 s before the 2nd and 4 s
\* before the 3rd attempt, and does not wait after the attempt that ends it.
IsPrefix(s, t) == Len(s) <= Len(t) /\ \A i \in DOMAIN s : s[i] = t[i]

C8_BoundedBackoff ==
    \A d \in Dispatches :
        /\ connects[d] <= 3
        /\ IsPrefix(sleeps[d], <<2, 4>>)
        /\ pc[d] = "done" => Len(sleeps[d]) = connects[d] - 1

C8_Witness ==
    /\ returned[1] = "exhausted"
    /\ connects[1] = 3
    /\ sleeps[1] = <<2, 4>>

\* C9: a reply whose message_id differs from the dispatch's message_id is never
\* delivered as a result of the dispatch, neither to the sink nor as the
\* return value of the batched call.
C9_MismatchIgnored ==
    \A d \in Dispatches :
        /\ \A k \in DOMAIN sink[d] :
              sink[d][k].from \in {Synthesized, FromFrame(message_id[d])}
        /\ returned[d] = "normal" /\ mode[d] = "batch" =>
              ret[d].from = FromFrame(message_id[d])

\* C10: concurrent streaming dispatches have pairwise distinct message ids and
\* the sink of a dispatch is only called with results of frames that carry
\* the message id of that dispatch.
C10_NoCrossDelivery ==
    /\ \A d, e \in Dispatches :
          d # e /\ message_id[d] # 0 /\ message_id[e] # 0 =>
              message_id[d] # message_id[e]
    /\ \A d \in Dispatches : \A k \in DOMAIN sink[d] :
          sink[d][k].from \in {Synthesized, FromFrame(message_id[d])}

C10_Witness ==
    \E d, e \in Dispatches :
        /\ d # e
        /\ pc[e] = "recv" /\ tests[e] # <<>>
        /\ message_id[e] \in dropped[d]
        /\ \E k \in DOMAIN sink[d] : sink[d][k].from = FromFrame(message_id[d])

\* C11: once a dispatch has read a reply that is not valid JSON or fails schema
\* validation, it is over: it makes no further connection attempt, holds no
\* link and reads no further reply, also when attempts remain.
C11_DecodeErrorFatal ==
    [][\A d \in Dispatches : malformed[d] =>
          /\ pc'[d] = "done"
          /\ link'[d] = 0
          /\ connects'[d] = connects[d]
          /\ sleeps'[d] = sleeps[d]
          /\ completed_tests'[d] = completed_tests[d]
          /\ answered'[d] = answered[d] /\ dropped'[d] = dropped[d]]_vars

C11_Witness ==
    \E d \in Dispatches :
        /\ malformed[d] /\ pc[d] = "done"
        /\ attempt[d] < max_retries - 1
        /\ budget > 0

\* C12: execute_tests and execute_tests_streaming never raise: a dispatch that
\* is over has returned, and when it failed (attempts exhausted, error frame,
\* decode error) every test of it has a failed result.
C12_NeverRaises ==
    \A d \in Dispatches : pc[d] = "done" =>
        /\ returned[d] \in {"normal", "exhausted", "fatal"}
        /\ returned[d] \in {"exhausted", "fatal"} /\ mode[d] = "streaming" =>
              \A i \in DOMAIN tests[d] : \E k \in DOMAIN sink[d] :
                  /\ sink[d][k].test_id = tests[d][i]
                  /\ sink[d][k].success = FALSE
        /\ returned[d] \in {"exhausted", "fatal"} /\ mode[d] = "batch" =>
              /\ Len(ret[d].results) = Len(tests[d])
              /\ \A i \in DOMAIN tests[d] :
                    /\ ret[d].results[i].test_id = tests[d][i]
                    /\ ret[d].results[i].success = FALSE

C12_Witness ==
    \E d \in Dispatches :
        /\ pc[d] = "done" /\ returned[d] = "fatal" /\ mode[d] = "streaming"
        /\ tests[d] # <<>>
        /\ \E k \in DOMAIN sink[d] :
              sink[d][k].from = Synthesized /\ sink[d][k].error[3] = ERunnerError

\* C13: when the batched execute_tests of the sandbox service has returned,
\* final_results has one entry per test of the request, entry i carries the id
\* of test i and the outcome of call i, whatever the order in which the calls
\* returned; a call whose driver failed has its failed entry, not a gap.
C13_BatchAligned ==
    (k_mode = "batch" /\ k_epc = "receive") =>
        /\ Len(k_final) = NumJobs
        /\ \A i \in Jobs :
              /\ k_final[i].test_id = JobTestId(i)
              /\ k_final[i].success = k_result[i].success
              /\ k_final[i].error = k_result[i].error
        /\ k_frames = <<[message_id |-> RunnerMessageId, results |-> k_final]>>

C13_Witness ==
    /\ k_mode = "batch" /\ k_epc = "receive"
    /\ k_order[1] # 1
    /\ \E i \in Jobs :
          /\ ~k_final[i].success
          /\ k_final[i].error # <<>> /\ k_final[i].error[1] = "Execution error"

\* C14: when the endpoint reads the next request after a streaming request of
\* N tests, it has sent exactly N test_result frames, one per test id, each
\* with the message_id of the request, in whatever order, also for a call
\* whose driver failed.
C14_StreamingFrames ==
    (k_mode = "streaming" /\ k_epc = "receive") =>
        /\ Len(k_frames) = NumJobs
        /\ \A j \in Jobs :
              Cardinality({i \in DOMAIN k_frames :
                              k_frames[i].test_result.test_id = JobTestId(j)}) = 1
        /\ \A i \in DOMAIN k_frames : k_frames[i].message_id = RunnerMessageId

C14_Witness ==
    /\ k_mode = "streaming" /\ k_epc = "receive"
    /\ k_frames[1].test_result.test_id # JobTestId(1)
    /\ \E i \in DOMAIN k_frames :
          /\ ~k_frames[i].test_result.success
          /\ k_frames[i].test_result.error[1] = "Execution error"

\* C15: _cleanup_resources never changes the outcome of a test: the step that
\* cleans up and returns leaves the result of the call as it was, also when a
\* delete call raised.
C15_CleanupKeepsResult ==
    [][\A j \in Jobs : k_pc[j] = "cleanup" => k_result'[j] = k_result[j]]_vars

C15_Witness ==
    \E j \in Jobs :
        /\ k_pc[j] = "done"
        /\ k_result[j].success
        /\ job[j] = "succeeded" /\ configmap[j] = "present"

\* C16: every call that has created its Job and waits for it eventually
\* finishes its cleanup and returns.
C16_ReachesDone ==
    \A j \in Jobs : (k_pc[j] \in {"poll", "sleep"}) ~> (k_pc[j] \in {"done", "sent"})

\* C17: for every kind K, the first frame of K is the snapshot of K with every
\* test pending, the second is the snapshot of K with every test running, and
\* every test_result_update of a test of K comes after both, whatever the
\* interleaving of the three branches and of the update tasks.
C17_SnapshotOrder ==
    \A d \in Dispatches :
        /\ Len(out[d]) >= 1 =>
              /\ out[d][1].type = "return_" \o KindOf(d) \o "_tests"
              /\ [i \in DOMAIN out[d][1].tests |-> out[d][1].tests[i].id] = tests[d]
              /\ \A i \in DOMAIN out[d][1].tests : out[d][1].tests[i].status = "pending"
        /\ Len(out[d]) >= 2 =>
              /\ out[d][2].type = "return_" \o KindOf(d) \o "_tests"
              /\ [i \in DOMAIN out[d][2].tests |-> out[d][2].tests[i].id] = tests[d]
              /\ \A i \in DOMAIN out[d][2].tests : out[d][2].tests[i].status = "running"
        /\ \A i \in DOMAIN out[d] : out[d][i].type = "test_result_update" => i > 2

C17_Witness ==
    \E d, e \in Dispatches :
        /\ d # e
        /\ Len(out[d]) >= 3 /\ out[d][3].type = "test_result_update"
        /\ Len(out[e]) >= 2 /\ tests[e] # <<>>

\* C18: at no time are two tasks of a session (a kind branch, a send_update
\* task, keepalive) inside a send on the session's websocket.
C18_SingleWriter == Cardinality(w_inside) <= 1

\* C19: once the client has closed its end, the dispatches of the session's
\* request do no further work: no connection to the sandbox service is opened,
\* no result is handled, no send_update task is created and no status changes.
C19_NoWorkAfterDisconnect ==
    [][s_peer = "closed" =>
          /\ connects' = connects
          /\ sink' = sink
          /\ test' = test
          /\ Len(tasks') <= Len(tasks)]_vars

\* C20: after every step active_connections holds exactly the sessions that
\* were accepted and have not ended, each once; a step that ends a session
\* calls manager.disconnect for it once and leaves the position, the keepalive
\* task and the registration of every other session as they were.
C20_Unregistered ==
    [][/\ Len(active_connections') = Cardinality(Range(active_connections'))
       /\ Range(active_connections') = {s \in Sessions : m_pc'[s] \in {"receive", "handling"}}
       /\ \A s \in Sessions :
             /\ m_removed'[s] = IF m_pc'[s] = "ended" THEN 1 ELSE 0
             /\ (m_pc[s] # "ended" /\ m_pc'[s] = "ended") =>
                   \A t \in Sessions \ {s} :
                       /\ m_pc'[t] = m_pc[t]
                       /\ m_keepalive'[t] = m_keepalive[t]
                       /\ m_peer'[t] = m_peer[t]
                       /\ (t \in Range(active_connections')) = (t \in Range(active_connections))]_vars

C20_Witness ==
    \E s, t \in Sessions :
        /\ s # t
        /\ m_pc[s] = "ended" /\ m_removed[s] = 1
        /\ active_connections = <<t>>
        /\ m_pc[t] = "handling" /\ m_keepalive[t] = "running"
        /\ s < t

\* the tests created for the session of dispatch d
SessionTests(d) ==
    UNION {Range(tests[e]) : e \in {e \in Dispatches : SessionOf(e) = SessionOf(d)}}

\* C21: with two sessions served at once, every frame written for a session
\* carries the id of that session's request and only ids of tests created for
\* that session, and no test id is created for or written to both sessions.
C21_SessionsIsolated ==
    /\ \A d \in Dispatches : \A k \in DOMAIN out[d] :
          /\ out[d][k].id = SessionRequestIds[SessionOf(d)]
          /\ \A i \in DOMAIN out[d][k].tests : out[d][k].tests[i].id \in SessionTests(d)
    /\ \A d, e \in Dispatches : SessionOf(d) # SessionOf(e) =>
          /\ Range(tests[d]) \cap Range(tests[e]) = {}
          /\ \A k \in DOMAIN out[d], l \in DOMAIN out[e] :
                \A i \in DOMAIN out[d][k].tests, j \in DOMAIN out[e][l].tests :
                    out[d][k].tests[i].id # out[e][l].tests[j].id

C21_Witness ==
    \E d, e \in Dispatches :
        /\ SessionOf(d) # SessionOf(e)
        /\ \E k \in DOMAIN out[d] : out[d][k].type = "test_result_update"
        /\ Len(out[e]) >= 2 /\ tests[e] # <<>>

\* the step reads a frame of one of the classes cs off the open websocket
ReadsOneOf(cs) == s_left' = s_left - 1 /\ s_peer' = s_peer /\ s_read' \in cs

\* C22: every step in which the loop reads a malformed frame (no JSON, or
\* JSON that is no object) writes one error response and leaves the session
\* open, reading the next frame.
C22_MalformedAnswered ==
    [][ReadsOneOf({"invalid_json", "not_object"}) =>
          /\ Len(s_out') = Len(s_out) + 1
          /\ s_out'[Len(s_out')].type = "error"
          /\ s_pc' = "receive"]_vars

\* C23: a step in which the loop reads a frame of an unsupported type writes
\* no frame, leaves the session open at receive_text and changes nothing else.
C23_UnknownTypeIgnored ==
    [][ReadsOneOf({"unknown_type"}) =>
          /\ s_out' = s_out
          /\ s_pc = "receive" /\ s_pc' = "receive"
          /\ UNCHANGED <<s_req, s_peer, cvars>>]_vars

C23_Witness ==
    /\ s_read = "unknown_type"
    /\ s_pc = "receive" /\ s_peer = "open" /\ s_out = <<>>

\* the endpoint of session s serves a client that is still there
Open(s) == m_pc[s] \in {"receive", "handling"} /\ m_peer[s] = "open"

\* C24: while a session is open its keepalive task runs and its next ping can
\* be sent, at receive_text and inside a handler alike; and a session is only
\* ended by its client closing or its handler raising, however many pings
\* went unanswered.
C24_KeepaliveRuns ==
    /\ [](\A s \in Sessions : Open(s) =>
            /\ m_keepalive[s] = "running"
            /\ Len(m_pings[s]) < MaxPings => ENABLED M_Ping(s))
    /\ [][\A s \in Sessions : (m_pc[s] # "ended" /\ m_pc'[s] = "ended") =>
              m_peer[s] = "closed" \/ m_pc[s] = "handling"]_vars

C24_Witness ==
    \E s \in Sessions :
        /\ Open(s) /\ m_pc[s] = "receive"
        /\ Len(m_pings[s]) = MaxPings
        /\ m_pings[s][MaxPings] = "handling"

\* C26: a branch whose generator has raised writes no snapshot of its tests
\* and dispatches nothing.
C26_GeneratorErrorEndsBranch ==
    \A d \in Dispatches : g_error[d] =>
        /\ \A k \in DOMAIN out[d] : out[d][k].type # "return_" \o KindOf(d) \o "_tests"
        /\ pc[d] \notin {"call", "connect", "sleep", "recv"}
        /\ connects[d] = 0

\* the frame with the empty list of the tests of kind branch d
EmptySnapshot(d) ==
    [type |-> "return_" \o KindOf(d) \o "_tests", id |-> req_id[d], tests |-> <<>>]

\* C27: a branch whose generator returned no test writes the pending and the
\* running snapshot, both with the empty list, and nothing else: no
\* test_result_update and no error response (no exception reaches the except
\* clause of the branch), whether the sandbox service was reached or not.
C27_EmptyBranch ==
    \A d \in Dispatches :
        (mode[d] = "streaming" /\ tests[d] = <<>> /\ pc[d] # "init") =>
            /\ out[d] = IF pc[d] = "pending" THEN <<EmptySnapshot(d)>>
                        ELSE <<EmptySnapshot(d), EmptySnapshot(d)>>
            /\ pc[d] # "aborted" /\ returned[d] # "raised"
            /\ \A i \in DOMAIN tasks : tasks[i].d # d

C27_Witness ==
    \E d \in Dispatches :
        /\ mode[d] = "streaming" /\ tests[d] = <<>>
        /\ pc[d] = "done" /\ returned[d] = "exhausted"
        /\ out[d] = <<EmptySnapshot(d), EmptySnapshot(d)>>

\* branch d has failed: its generator raised, or its dispatch ended with an
\* exception inside execute_tests_streaming, or a send of it raised
Failed(d) ==
    \/ g_error[d]
    \/ returned[d] \notin {"no", "normal"}
    \/ pc[d] = "aborted"

\* C25: when the branch of one kind has failed, every other branch that has
\* ended and whose update tasks have run has written its pending and running
\* snapshots and a terminal result for each of its tests.
C25_OthersComplete ==
    \A d, e \in Dispatches :
        (d # e /\ Failed(d) /\ pc[e] = "done" /\ PendingTasks(e) = {}) =>
            /\ Len(out[e]) >= 2
            /\ \A t \in Range(tests[e]) : TerminalFrames(e, t) >= 1

\* C28: every test in a frame written for run_tests has the terminal status
\* that agrees with its execution record: success when execution_success is
\* true, failed when it is false.
C28_RunTestsTerminal ==
    \A d \in Dispatches : mode[d] = "batch" =>
        \A k \in DOMAIN out[d] : \A i \in DOMAIN out[d][k].tests :
            LET t == out[d][k].tests[i]
            IN  test[t.id].writes > 0 =>
                    t.status = IF test[t.id].execution_success
                               THEN "success" ELSE "failed"

\* the error names an exit code: it has the form the container backend gives it
NamesExitCode(err) == Len(err) = 3 /\ err[1] = "Test execution failed (exit code: "

\* C29: when the driver of the orchestrated-job backend reads that the Job
\* has ended, the result it builds follows the exit of the sandbox: success
\* with the logs and no error for a Job that succeeded (exit code 0), failure
\* with the logs and an error naming the exit code for a Job that failed.
C29_ExitCodeMapped ==
    [][\A j \in Jobs :
          (k_pc[j] = "poll" /\ k_pc'[j] = "cleanup" /\ ~k_elapsed[j]
             /\ k_faults' = k_faults /\ job[j] \in {"succeeded", "failed"}) =>
              /\ k_result'[j].output = "logs"
              /\ k_result'[j].success = (job[j] = "succeeded")
              /\ job[j] = "succeeded" => k_result'[j].error = <<>>
              /\ job[j] = "failed" => NamesExitCode(k_result'[j].error)]_vars

\* the first part of the error of a result the drivers build when their
\* infrastructure fails
InfrastructureErrors ==
    {"Execution error", "Docker API error", "Docker image not found",
     "Container error", "Kubernetes API error"}

\* C30: when the wait of the container backend ends because the wall-clock
\* limit has passed, the result is a failure whose error is not one of the
\* errors of an infrastructure failure.
C30_TimeoutIdentified ==
    [][\A c \in Containers :
          (c_pc[c] = "wait" /\ c_pc'[c] = "done" /\ container[c] = "running") =>
              /\ c_result'[c].success = FALSE
              /\ c_result'[c].error # <<>>
              /\ c_result'[c].error[1] \notin InfrastructureErrors]_vars

\* C37: _cleanup_resources deletes the ConfigMap whatever the deletion of the
\* Job did: a cleanup that meets a Job that cannot be deleted (it was never
\* created) and an existing ConfigMap leaves that ConfigMap deleted.
C37_ConfigMapDeletedAnyway ==
    [][\A j \in Jobs :
          (k_pc[j] = "cleanup" /\ k_pc'[j] = "done"
             /\ ~JobDeletable(job[j]) /\ configmap[j] = "present") =>
              configmap'[j] = "deleted"]_vars

\* C38: the wait of the orchestrated-job backend never answers with the
\* timeout result for a Job whose status is succeeded or failed when the
\* driver decides.
C38_FinishedJobNotTimedOut ==
    [][\A j \in Jobs :
          (k_pc[j] = "poll" /\ k_pc'[j] = "cleanup"
             /\ job[j] \in {"succeeded", "failed"}) =>
              ~(/\ Len(k_result'[j].error) = 1
                /\ k_result'[j].error[1] = "Test execution timeout")]_vars

\* C39: the container backend reports a container that exited with code 0 as
\* a success with its logs, however the removal of the container by the
\* daemon interleaves with the wait and logs calls of the driver.
C39_ExitZeroIsSuccess ==
    [][\A c \in Containers :
          (c_pc[c] = "logs" /\ c_pc'[c] = "done" /\ exit_code[c] = 0) =>
              /\ c_result'[c].success
              /\ c_result'[c].output = "logs"]_vars

\* C36: a dispatch holds at most one open link to the sandbox service, and
\* holds none unless it is reading from the link of its current attempt: the
\* link of an attempt is closed before the dispatch sleeps, connects again or
\* returns.
C36_LinkClosed ==
    \A d \in Dispatches :
        /\ link[d] <= 1
        /\ pc[d] # "recv" => link[d] = 0

\* a second link is open after the first one delivered a result and dropped
C36_Witness ==
    \E d \in Dispatches :
        /\ pc[d] = "recv" /\ link[d] = 1
        /\ attempt[d] >= 1 /\ completed_tests[d] = 0
        /\ \E i \in DOMAIN sink[d] : sink[d][i].from # Synthesized

\* the dispatch has read a reply from the sandbox service: it had a link and
\* had sent its request on it
HasReadReply(d) ==
    \/ dropped[d] # {}
    \/ \E i \in DOMAIN sink[d] : sink[d][i].from # Synthesized

\* C33: the retry covers connecting only: a dispatch that has read a reply,
\* and so had sent its request on an established link, never connects and
\* sends the request again.
C33_SentOnce ==
    [][\A d \in Dispatches :
          (pc[d] = "connect" /\ pc'[d] = "recv") => ~HasReadReply(d)]_vars

\* C34: when the read loop of a streaming dispatch was left by the execution
\* timeout (the dispatch returned with fewer results counted than it has
\* tests), every test of the dispatch has been given a result through the
\* sink.
C34_TimeoutSynthesizes ==
    \A d \in Dispatches :
        (mode[d] = "streaming" /\ returned[d] = "normal"
           /\ completed_tests[d] < Len(tests[d])) =>
            \A t \in Range(tests[d]) : Calls(sink[d], t) >= 1

\* C35: completed_tests of a streaming dispatch equals the number of its
\* tests that have been given a result on the link, so that when the read
\* loop ends because completed_tests reached the number of tests, every test
\* has been given a result through the sink.
C35_CountsDistinctTests ==
    \A d \in Dispatches : mode[d] = "streaming" =>
        /\ completed_tests[d] = Cardinality(answered[d] \cap Range(tests[d]))
        /\ (returned[d] = "normal" /\ completed_tests[d] >= Len(tests[d])) =>
              \A t \in Range(tests[d]) : Calls(sink[d], t) >= 1

\* the kinds that have a test among ts, in the order unit, memory, performance
KindsPresent(ts) ==
    SelectSeq(KindNames, LAMBDA k : \E t \in Range(ts) : test[t].type = k)

\* C32: a run_tests request without tests, or with a test that does not
\* deserialise, is answered by exactly one error response that carries the id
\* of the request, and nothing is dispatched; every other run_tests request
\* is dispatched and answered, once the dispatch has returned, by one frame
\* per kind that has tests, in the order unit, memory, performance.
C32_RunTestsAnswered ==
    /\ [](pc[1] = "sent" =>
             /\ Len(out[1]) = Len(KindsPresent(tests[1]))
             /\ \A i \in DOMAIN out[1] :
                   /\ out[1][i].type = "return_" \o KindsPresent(tests[1])[i] \o "_tests"
                   /\ out[1][i].id = req_id[1]
                   /\ out[1][i].tests # <<>>)
    /\ [][ReadsOneOf({"run_tests"}) =>
             \/ /\ pc' = pc
                /\ Len(s_out') = Len(s_out) + 1
                /\ s_out'[Len(s_out')].type = "error"
                /\ s_out'[Len(s_out')].id = s_out'[Len(s_out')].req
             \/ /\ pc[1] = "off" /\ pc'[1] = "run"
                /\ s_pc' = "run_tests"
                /\ s_out' = s_out /\ out' = out]_vars

\* a request with a memory test and a unit test, in this order, was answered
\* by the unit frame and then the memory frame
C32_Witness ==
    /\ pc[1] = "sent" /\ s_pc = "receive"
    /\ Len(tests[1]) = 2
    /\ test[tests[1][1]].type = "memory" /\ test[tests[1][2]].type = "unit"
    /\ Len(out[1]) = 2

\* C40: when a response frame of a request is written on a session, no
\* test_result_update of an earlier generate_tests request of the session is
\* still to be written: every send_update task the earlier request created
\* has run.
C40_UpdatesBeforeNextResponse ==
    [][Len(s_out') > Len(s_out) => tasks = <<>>]_vars

\* C31: the file /test/test_code.py a container of the container backend
\* runs has the lines of test.code, whatever they are, and the shell of the
\* container has read no line of test.code as a command.
C31_SourceVerbatim ==
    \A c \in Containers : container[c] # "absent" =>
        /\ c_files[c].test_code_py = c_files[c].code
        /\ c_files[c].shell = <<>>

====
